---------------------------- MODULE Spec2Model ----------------------------
(***************************************************************************)
(* A model of the Veracruz client (veracruz-client/src/veracruz_client.rs):*)
(* the HTTP relay that carries TLS records (InsecureConnection), the       *)
(* policy-hash and runtime-hash checks, and the data-plane calls.          *)
(*                                                                         *)
(* Text (String, &str) is a sequence of one-character strings; bytes are   *)
(* sequences of integers 0..255; Option<T> is a sequence of length <= 1;   *)
(* Result<T, E> is a record [ok, val, err].                                *)
(***************************************************************************)
EXTENDS Integers, Sequences, FiniteSets, TLC

VARIABLES
    read_buffer,        \* InsecureConnection.read_buffer : Vec<u8>
    remote_session_id,  \* Arc<Mutex<Option<u32>>> shared by client and connection
    last_post,          \* Option: body of the most recent POST to /runtime_manager
    nposts,             \* number of relay writes performed so far
    assigned,           \* Option: id carried by the first non-empty response processed
    relay_ret,          \* Option: what the last read / write of the connection returned
    policy,             \* VeracruzClient.policy: runtime manager hashes by platform
    policy_hash,        \* VeracruzClient.policy_hash : String
    peer_cert,          \* tls_context.peer_cert(): what the handshake left behind
    pc,                 \* position of the client inside the current call
    call,               \* the current call: operation, path, payload
    trace,              \* what the current call has done so far, in order
    ret,                \* Option: the result of the call that has just returned
    ncalls,             \* number of calls started so far
    check_failed,       \* a check has rejected what the enclave presented: its policy
                        \* hash or status (check_policy_hash), its certificate
                        \* (check_runtime_hash)
    recv,               \* input of compare_runtime_hash when it is run on its own
    wpc,                \* position of InsecureConnection::write and of its worker thread
    in_flight,          \* number of POSTs of this connection sent and not yet completed
    pending,            \* the write in progress: its data and how its worker ended
    delivered,          \* all bytes read calls have returned so far, in order
    arrived,            \* all bytes write has decoded from responses so far, in order
    features,           \* cargo features the proxy attestation server was built with
    debug_mode,         \* DEBUG_MODE of the proxy attestation server
    listeners,          \* number of HTTP listeners server has bound and started
    nstarts,            \* number of calls of server so far
    server_ret,         \* Option: what the last call of server did and returned
    proxy_ret,          \* Option: the last request to a router and its response
    socket,             \* bytes written to the TcpStream and not yet read by the peer
    stream,             \* "open", or "failed" once a write to the TcpStream has failed
    sent_msgs,          \* the messages send_message was given, in order
    received_msgs,      \* what the calls of receive_message returned, in order
    padding,            \* the bytes that follow the message in each frame sent
    enclave,            \* the root enclave: its provisioning state and challenge table
    root_log,           \* the requests the root enclave has handled and its replies
    built               \* Option: what the last call of with_policy_and_hash did

\* the write in progress (the worker thread of lines 73-88)
post_vars == <<wpc, in_flight, pending>>
\* the history of the read buffer
fifo_vars == <<delivered, arrived>>
\* the proxy attestation server
proxy_vars == <<features, debug_mode, listeners, nstarts, server_ret, proxy_ret>>
\* state of the components a client or relay step does not touch
\* the framed transport between host and root enclave
codec_vars == <<socket, stream, sent_msgs, received_msgs, padding>>
\* the root enclave
root_vars == <<enclave, root_log>>
other_vars == <<post_vars, proxy_vars, codec_vars, root_vars, built>>

vars == <<read_buffer, remote_session_id, last_post, nposts, assigned, relay_ret,
          policy, policy_hash, peer_cert, pc, call, trace, ret, ncalls, check_failed,
          recv, post_vars, fifo_vars, proxy_vars, codec_vars, root_vars, built>>

---------------------------------------------------------------------------
(* Bounds of the model. *)

\* relay writes in one run of the relay specification
MaxPosts == 3
\* requests the root enclave handles in one run
MaxRequests == 5
\* longest read buffer a relay write may build up
MaxBuf == 3
\* client calls in one session
MaxCalls == 2

---------------------------------------------------------------------------
(* Option and Result. *)

None == <<>>
Some(v) == <<v>>
IsSome(o) == Len(o) = 1
Unwrap(o) == o[1]
unwrap_or(o, d) == IF IsSome(o) THEN o[1] ELSE d

Ok(v) == [ok |-> TRUE, val |-> v, err |-> "none"]
Err(e) == [ok |-> FALSE, val |-> <<>>, err |-> e]

---------------------------------------------------------------------------
(* Text conversions used by the relay. *)

Digits == <<"0", "1", "2", "3", "4", "5", "6", "7", "8", "9">>
IsDigit(c) == \E i \in 1..10 : Digits[i] = c
DigitVal(c) == (CHOOSE i \in 1..10 : Digits[i] = c) - 1

\* u32::MAX = 4294967295, digit by digit (the number itself exceeds TLC's integers)
U32MaxDigits == <<4, 2, 9, 4, 9, 6, 7, 2, 9, 5>>

RECURSIVE StripZeros(_)
StripZeros(ds) ==
    IF Len(ds) > 1 /\ ds[1] = "0" THEN StripZeros(Tail(ds)) ELSE ds

RECURSIVE DigitsValue(_, _)
DigitsValue(ds, acc) ==
    IF ds = <<>> THEN acc ELSE DigitsValue(Tail(ds), 10 * acc + DigitVal(ds[1]))

\* ds (10 significant digits) is above u32::MAX
RECURSIVE AboveMax(_, _)
AboveMax(ds, i) ==
    IF i > 10 THEN FALSE
    ELSE IF DigitVal(ds[i]) > U32MaxDigits[i] THEN TRUE
    ELSE IF DigitVal(ds[i]) < U32MaxDigits[i] THEN FALSE
    ELSE AboveMax(ds, i + 1)

\* str::parse::<u32>: an optional '+', then one or more decimal digits, no overflow
parse_u32(tok) ==
    LET ds == IF tok # <<>> /\ tok[1] = "+" THEN Tail(tok) ELSE tok
        sig == StripZeros(ds)
    IN  IF tok = <<>> THEN Err("Empty")
        ELSE IF ds = <<>> \/ \E i \in 1..Len(ds) : ~IsDigit(ds[i]) THEN Err("InvalidDigit")
        ELSE IF Len(sig) > 10 \/ (Len(sig) = 10 /\ AboveMax(sig, 1)) THEN Err("PosOverflow")
        ELSE Ok(DigitsValue(sig, 0))

\* format!("{:}", n) of a u32
RECURSIVE format_u32(_)
format_u32(n) ==
    IF n < 10 THEN <<Digits[n + 1]>>
    ELSE format_u32(n \div 10) \o <<Digits[(n % 10) + 1]>>

IsWhitespace(c) == c \in {" ", "\t", "\n", "\r"}

RECURSIVE SplitFrom(_, _, _, _)
SplitFrom(s, i, cur, acc) ==
    LET closed == IF cur = <<>> THEN acc ELSE Append(acc, cur)
    IN  IF i > Len(s) THEN closed
        ELSE IF IsWhitespace(s[i]) THEN SplitFrom(s, i + 1, <<>>, closed)
        ELSE SplitFrom(s, i + 1, Append(cur, s[i]), acc)

\* str::split_whitespace().collect(): the maximal runs of non-whitespace
split_whitespace(s) == SplitFrom(s, 1, <<>>, <<>>)

B64Alphabet ==
    <<"A", "B", "C", "D", "E", "F", "G", "H", "I", "J", "K", "L", "M",
      "N", "O", "P", "Q", "R", "S", "T", "U", "V", "W", "X", "Y", "Z",
      "a", "b", "c", "d", "e", "f", "g", "h", "i", "j", "k", "l", "m",
      "n", "o", "p", "q", "r", "s", "t", "u", "v", "w", "x", "y", "z",
      "0", "1", "2", "3", "4", "5", "6", "7", "8", "9", "+", "/">>
IsB64(c) == \E i \in 1..64 : B64Alphabet[i] = c
B64Val(c) == (CHOOSE i \in 1..64 : B64Alphabet[i] = c) - 1
B64Char(v) == B64Alphabet[v + 1]

\* base64::encode: standard alphabet, '=' padding
RECURSIVE base64_encode(_)
base64_encode(b) ==
    IF b = <<>> THEN <<>>
    ELSE IF Len(b) = 1 THEN
        <<B64Char(b[1] \div 4), B64Char((b[1] % 4) * 16), "=", "=">>
    ELSE IF Len(b) = 2 THEN
        <<B64Char(b[1] \div 4), B64Char((b[1] % 4) * 16 + b[2] \div 16),
          B64Char((b[2] % 16) * 4), "=">>
    ELSE
        <<B64Char(b[1] \div 4), B64Char((b[1] % 4) * 16 + b[2] \div 16),
          B64Char((b[2] % 16) * 4 + b[3] \div 64), B64Char(b[3] % 64)>>
        \o base64_encode(SubSeq(b, 4, Len(b)))

\* the bytes of one group of four characters; the last group may be padded
DecodeGroup(g, last) ==
    IF IsB64(g[1]) /\ IsB64(g[2]) /\ IsB64(g[3]) /\ IsB64(g[4]) THEN
        Ok(<<B64Val(g[1]) * 4 + B64Val(g[2]) \div 16,
             (B64Val(g[2]) % 16) * 16 + B64Val(g[3]) \div 4,
             (B64Val(g[3]) % 4) * 64 + B64Val(g[4])>>)
    ELSE IF last /\ IsB64(g[1]) /\ IsB64(g[2]) /\ IsB64(g[3]) /\ g[4] = "="
            /\ B64Val(g[3]) % 4 = 0 THEN
        Ok(<<B64Val(g[1]) * 4 + B64Val(g[2]) \div 16,
             (B64Val(g[2]) % 16) * 16 + B64Val(g[3]) \div 4>>)
    ELSE IF last /\ IsB64(g[1]) /\ IsB64(g[2]) /\ g[3] = "=" /\ g[4] = "="
            /\ B64Val(g[2]) % 16 = 0 THEN
        Ok(<<B64Val(g[1]) * 4 + B64Val(g[2]) \div 16>>)
    ELSE Err("base64::decode")

\* base64::decode: groups of four characters of the standard alphabet, canonical
\* '=' padding in the last group only
RECURSIVE base64_decode(_)
base64_decode(s) ==
    IF s = <<>> THEN Ok(<<>>)
    ELSE IF Len(s) < 4 THEN Err("base64::decode")
    ELSE LET head == DecodeGroup(SubSeq(s, 1, 4), Len(s) = 4)
             rest == base64_decode(SubSeq(s, 5, Len(s)))
         IN  IF ~head.ok THEN head
             ELSE IF ~rest.ok THEN rest
             ELSE Ok(head.val \o rest.val)

HexLower == <<"0", "1", "2", "3", "4", "5", "6", "7", "8", "9",
              "a", "b", "c", "d", "e", "f">>
HexUpper == <<"0", "1", "2", "3", "4", "5", "6", "7", "8", "9",
              "A", "B", "C", "D", "E", "F">>
IsHex(c) == \E i \in 1..16 : HexLower[i] = c \/ HexUpper[i] = c
HexVal(c) == (CHOOSE i \in 1..16 : HexLower[i] = c \/ HexUpper[i] = c) - 1

\* hex::decode: an even number of hexadecimal digits, two per byte
hex_decode(s) ==
    IF Len(s) % 2 # 0 THEN Err("OddLength")
    ELSE IF \E i \in 1..Len(s) : ~IsHex(s[i]) THEN Err("InvalidHexCharacter")
    ELSE Ok([i \in 1..(Len(s) \div 2) |-> 16 * HexVal(s[2 * i - 1]) + HexVal(s[2 * i])])

---------------------------------------------------------------------------
(* InsecureConnection: the transport handed to the TLS engine. *)

Min(a, b) == IF a < b THEN a ELSE b

\* read handing over a byte even when the destination has no room
read_at_least_one(buf, n) ==
    LET k == Min(IF n = 0 THEN 1 ELSE n, Len(buf))
    IN  [out |-> SubSeq(buf, 1, k), buf |-> SubSeq(buf, k + 1, Len(buf)), ret |-> Ok(k)]

\* read handing over the newest bytes instead of the oldest
read_from_back(buf, n) ==
    LET k == Min(n, Len(buf))
    IN  [out |-> SubSeq(buf, Len(buf) - k + 1, Len(buf)),
         buf |-> SubSeq(buf, 1, Len(buf) - k), ret |-> Ok(k)]

\* InsecureConnection::read with a destination of n bytes: hands over the first
\* min(n, len) bytes of the read buffer and keeps the rest
read(buf, n) ==
    LET k == Min(n, Len(buf))
    IN  [out |-> SubSeq(buf, 1, k), buf |-> SubSeq(buf, k + 1, Len(buf)), ret |-> Ok(k)]

\* the loop over body_items.iter().skip(1): every item decoded before the first
\* bad one has been appended when the loop gives up
RECURSIVE extend_from_items(_, _, _)
extend_from_items(buf, items, i) ==
    IF i > Len(items) THEN [buf |-> buf, ok |-> TRUE]
    ELSE LET this_body_data == base64_decode(items[i])
         IN  IF ~this_body_data.ok THEN [buf |-> buf, ok |-> FALSE]
             ELSE extend_from_items(buf \o this_body_data.val, items, i + 1)

\* "{:} {:}" of the session id and the encoded data
combined_string(sid, data) ==
    format_u32(unwrap_or(sid, 0)) \o <<" ">> \o base64_encode(data)

\* write taking the id 0 of a response for "no session"
append_records_clears_zero(received_session_id, ext, data, post) ==
    [sid |-> IF received_session_id = 0 THEN None ELSE Some(received_session_id),
     buf |-> ext.buf, post |-> post, len |-> Len(data),
     ret |-> IF ext.ok THEN Ok(Len(data)) ELSE Err("base64::decode")]

\* the end of write once the session id has been stored: the records are appended
append_records(received_session_id, ext, data, post) ==
    [sid |-> Some(received_session_id), buf |-> ext.buf, post |-> post,
     len |-> Len(data),
     ret |-> IF ext.ok THEN Ok(Len(data)) ELSE Err("base64::decode")]

\* write that touches neither the id nor the buffer unless every record decodes
process_items_atomic(sid, buf, data, body_items, received_session_id, post) ==
    IF ~received_session_id.ok THEN
        [sid |-> sid, buf |-> buf, post |-> post, len |-> Len(data),
         ret |-> Err("bad session id")]
    ELSE IF ~extend_from_items(buf, body_items, 2).ok THEN
        [sid |-> sid, buf |-> buf, post |-> post, len |-> Len(data),
         ret |-> Err("base64::decode")]
    ELSE append_records(received_session_id.val,
                        extend_from_items(buf, body_items, 2), data, post)

\* write insisting on a record after the session id
process_items_requires_record(sid, buf, data, body_items, received_session_id, post) ==
    IF ~received_session_id.ok \/ Len(body_items) < 2 THEN
        [sid |-> sid, buf |-> buf, post |-> post, len |-> Len(data),
         ret |-> Err("bad session id")]
    ELSE append_records(received_session_id.val,
                        extend_from_items(buf, body_items, 2), data, post)

\* what write does with the items of a non-empty body
process_items(sid, buf, data, body_items, received_session_id, post) ==
    IF ~received_session_id.ok THEN
        [sid |-> sid, buf |-> buf, post |-> post, len |-> Len(data),
         ret |-> Err("bad session id")]
    ELSE append_records(received_session_id.val,
                        extend_from_items(buf, body_items, 2), data, post)

\* write without the is_empty test of line 91
process_body_requires_id(sid, buf, data, body_items, post) ==
    IF body_items = <<>> THEN
        [sid |-> sid, buf |-> buf, post |-> post, len |-> Len(data),
         ret |-> Err("bad session id")]
    ELSE process_items(sid, buf, data, body_items, parse_u32(body_items[1]), post)

\* what write does with the body of a 200 response
process_body(sid, buf, data, body_items, post) ==
    IF body_items = <<>> THEN
        [sid |-> sid, buf |-> buf, post |-> post, len |-> Len(data),
         ret |-> Ok(Len(data))]
    ELSE process_items(sid, buf, data, body_items, parse_u32(body_items[1]), post)

\* InsecureConnection::write of data when the HTTP round trip ends as http says.
\* (The mutex is never poisoned, no thread panics while holding it: the two
\* "lock failed" exits are dead.)
write(sid, buf, data, http) ==
    IF http.kind = "ok" THEN
        process_body(sid, buf, data, split_whitespace(http.body),
                     Some(combined_string(sid, data)))
    ELSE
        [sid |-> sid, buf |-> buf, ret |-> Err(http.kind), len |-> Len(data),
         post |-> IF http.posted THEN Some(combined_string(sid, data)) ELSE None]

---------------------------------------------------------------------------
(* What the relay on the other side of the HTTP round trip may do. *)

RECURSIVE Join(_)
Join(toks) ==
    IF toks = <<>> THEN <<>>
    ELSE IF Len(toks) = 1 THEN toks[1]
    ELSE toks[1] \o <<" ">> \o Join(Tail(toks))

SidTokens ==
    { <<"0">>, <<"7">>, <<"8">>, <<"+", "7">>, <<"x">>,
      <<"4", "2", "9", "4", "9", "6", "7", "2", "9", "6">> }
GoodRecord == base64_encode(<<1>>)
LongRecord == base64_encode(<<255, 0>>)
BadRecord == <<"!", "!", "!", "!">>
RecordLists ==
    { <<>>, <<GoodRecord>>, <<LongRecord, GoodRecord>>, <<BadRecord>>,
      <<GoodRecord, BadRecord, GoodRecord>> }
Bodies ==
    {<<>>, <<" ", "\n">>, <<"7", "\n">>}
        \cup {Join(<<s>> \o recs) : s \in SidTokens, recs \in RecordLists}

\* the ways the worker thread of write can end
HttpFailures ==
    {[kind |-> "reqwest new", posted |-> FALSE, body |-> <<>>],
     [kind |-> "reqwest send", posted |-> TRUE, body |-> <<>>],
     [kind |-> "reqwest bad status", posted |-> TRUE, body |-> <<>>],
     [kind |-> "reqwest text", posted |-> TRUE, body |-> <<>>],
     [kind |-> "join failed", posted |-> FALSE, body |-> <<>>],
     [kind |-> "join failed", posted |-> TRUE, body |-> <<>>]}
HttpOutcomes ==
    HttpFailures \cup {[kind |-> "ok", posted |-> TRUE, body |-> b] : b \in Bodies}

\* TLS records the engine hands to write
RelayData == {<<>>, <<255, 0>>}

\* the id carried by a response body, when it is not empty and its first item parses
ItemsId(items) ==
    IF items # <<>> /\ parse_u32(items[1]).ok
    THEN Some(parse_u32(items[1]).val) ELSE None
ResponseId(http) ==
    IF http.kind = "ok" THEN ItemsId(split_whitespace(http.body)) ELSE None

---------------------------------------------------------------------------
(* The relay on its own: the TLS engine calls write and read in any order. *)

\* the worker's outcome before it has one
NoOutcome == [kind |-> "none", posted |-> FALSE, body |-> <<>>]
\* no write is in progress
NoPending == [data |-> <<>>, http |-> NoOutcome]
NoWrite ==
    /\ wpc = "idle"
    /\ in_flight = 0
    /\ pending = NoPending

\* no proxy attestation server in this process
NoProxy ==
    /\ features = {}
    /\ debug_mode = FALSE
    /\ listeners = 0
    /\ nstarts = 0
    /\ server_ret = None
    /\ proxy_ret = None

\* no message has been sent on the socket
NoCodec ==
    /\ socket = <<>>
    /\ stream = "open"
    /\ sent_msgs = <<>>
    /\ received_msgs = <<>>
    /\ padding = <<>>

\* a root enclave that has just started: nothing provisioned, no challenge issued
NoRoot ==
    /\ enclave = [state |-> "UNPROVISIONED", challenges |-> {}, minted |-> 0]
    /\ root_log = <<>>

\* with_policy_and_hash has not been called
NoBuild == built = None

InitRelay ==
    /\ NoCodec
    /\ NoRoot
    /\ NoBuild
    /\ read_buffer = <<>>
    /\ remote_session_id = Some(0)
    /\ last_post = None
    /\ nposts = 0
    /\ assigned = None
    /\ relay_ret = None
    /\ NoWrite
    /\ delivered = <<>>
    /\ arrived = <<>>

\* the bytes the loop of lines 101-104 decodes from items i.. before it stops
RECURSIVE decoded_from(_, _)
decoded_from(items, i) ==
    IF i > Len(items) \/ ~base64_decode(items[i]).ok THEN <<>>
    ELSE base64_decode(items[i]).val \o decoded_from(items, i + 1)

\* the bytes write decodes from the records of a response
decoded_records(http) ==
    IF IsSome(ResponseId(http)) THEN decoded_from(split_whitespace(http.body), 2)
    ELSE <<>>

\* the state of the connection after a write that met http has ended as w
WriteEffect(w, http) ==
    /\ Len(w.buf) <= MaxBuf
    /\ read_buffer' = w.buf
    /\ remote_session_id' = w.sid
    /\ last_post' = IF IsSome(w.post) THEN w.post ELSE last_post
    /\ nposts' = nposts + 1
    /\ assigned' = IF IsSome(assigned) THEN assigned ELSE ResponseId(http)
    /\ relay_ret' = Some([op |-> "write", ret |-> w.ret, out |-> <<>>,
                          kind |-> http.kind, posted |-> http.posted,
                          resp_id |-> ResponseId(http),
                          before_id |-> remote_session_id,
                          before_assigned |-> assigned,
                          before_buf |-> read_buffer,
                          n |-> w.len, body |-> http.body])

RelayWrite ==
    /\ nposts < MaxPosts
    /\ \E data \in RelayData, http \in HttpOutcomes :
         WriteEffect(write(remote_session_id, read_buffer, data, http), http)
    /\ UNCHANGED <<policy, policy_hash, peer_cert, pc, call, trace, ret, ncalls,
                   check_failed, recv, fifo_vars, other_vars>>

\* the state of the connection after a read that has ended as r
ReadEffect(r, n) ==
    /\ read_buffer' = r.buf
    /\ relay_ret' = Some([op |-> "read", ret |-> r.ret, out |-> r.out,
                          kind |-> "none", posted |-> FALSE,
                          resp_id |-> None,
                          before_id |-> remote_session_id,
                          before_assigned |-> assigned,
                          before_buf |-> read_buffer,
                          n |-> n, body |-> <<>>])

\* lengths of the destination the engine hands to read
ReadLens == 0..2

RelayRead ==
    /\ \E n \in ReadLens : ReadEffect(read(read_buffer, n), n)
    /\ UNCHANGED <<remote_session_id, last_post, nposts, assigned>>
    /\ UNCHANGED <<policy, policy_hash, peer_cert, pc, call, trace, ret, ncalls,
                   check_failed, recv, fifo_vars, other_vars>>

---------------------------------------------------------------------------
(* The runtime-hash verifier. *)

Platforms == <<"Linux", "Nitro", "IceCap">>

\* Policy::runtime_manager_hash(platform): the hex string of the policy, if any
runtime_manager_hash(pol, platform) ==
    IF IsSome(pol[platform]) THEN Ok(Unwrap(pol[platform])) ELSE Err("no hash")

\* the loop of compare_runtime_hash from the i-th platform on
RECURSIVE compare_from(_, _, _)
compare_from(pol, received, i) ==
    IF i > Len(Platforms) THEN Err("NoMatchingRuntimeIsolateHash")
    ELSE LET expected == runtime_manager_hash(pol, Platforms[i])
             expected_bytes == hex_decode(expected.val)
         IN  IF ~expected.ok THEN compare_from(pol, received, i + 1)
             ELSE IF ~expected_bytes.ok THEN Err("HexError")
             ELSE IF received = expected_bytes.val THEN Ok(<<>>)
             ELSE compare_from(pol, received, i + 1)

\* compare_runtime_hash comparing lengths only, not contents
RECURSIVE compare_len_from(_, _, _)
compare_len_from(pol, received, i) ==
    IF i > Len(Platforms) THEN Err("NoMatchingRuntimeIsolateHash")
    ELSE IF ~runtime_manager_hash(pol, Platforms[i]).ok
        THEN compare_len_from(pol, received, i + 1)
    ELSE IF ~hex_decode(runtime_manager_hash(pol, Platforms[i]).val).ok
        THEN Err("HexError")
    ELSE IF Len(received) = Len(hex_decode(runtime_manager_hash(pol, Platforms[i]).val).val)
        THEN Ok(<<>>)
    ELSE compare_len_from(pol, received, i + 1)
compare_runtime_hash_by_length(pol, received) == compare_len_from(pol, received, 1)

\* VeracruzClient::compare_runtime_hash
compare_runtime_hash(pol, received) == compare_from(pol, received, 1)

\* check_runtime_hash taking a certificate without the extension as good
check_runtime_hash_missing_ok(pol, cert) ==
    IF cert.state = "Err" THEN Err("NoPeerCertificatesError")
    ELSE IF cert.state \in {"None", "Empty"} THEN Err("UnexpectedCertificateError")
    ELSE IF ~cert.parses THEN Err("WebpkiError")
    ELSE IF ~IsSome(cert.ext) THEN Ok(<<>>)
    ELSE compare_runtime_hash(pol, Unwrap(cert.ext))

\* VeracruzClient::check_runtime_hash on what peer_cert() returns
check_runtime_hash(pol, cert) ==
    IF cert.state = "Err" THEN Err("NoPeerCertificatesError")
    ELSE IF cert.state \in {"None", "Empty"} THEN Err("UnexpectedCertificateError")
    ELSE IF ~cert.parses THEN Err("WebpkiError")
    ELSE IF ~IsSome(cert.ext) THEN Err("RuntimeHashExtensionMissingError")
    ELSE compare_runtime_hash(pol, Unwrap(cert.ext))

---------------------------------------------------------------------------
(* The session protocol inside the TLS channel. *)

IsCont(b) == b >= 128 /\ b <= 191

\* the number of bytes of the well-formed UTF-8 sequence b starts with, 0 if none
Utf8Width(b) ==
    LET n == Len(b)
        c(i) == n >= i /\ IsCont(b[i])
    IN  IF b[1] < 128 THEN 1
        ELSE IF b[1] >= 194 /\ b[1] <= 223 /\ c(2) THEN 2
        ELSE IF b[1] = 224 /\ n >= 2 /\ b[2] >= 160 /\ b[2] <= 191 /\ c(3) THEN 3
        ELSE IF b[1] = 237 /\ n >= 2 /\ b[2] >= 128 /\ b[2] <= 159 /\ c(3) THEN 3
        ELSE IF b[1] >= 225 /\ b[1] <= 239 /\ b[1] # 237 /\ c(2) /\ c(3) THEN 3
        ELSE IF b[1] = 240 /\ n >= 2 /\ b[2] >= 144 /\ b[2] <= 191 /\ c(3) /\ c(4) THEN 4
        ELSE IF b[1] >= 241 /\ b[1] <= 243 /\ c(2) /\ c(3) /\ c(4) THEN 4
        ELSE IF b[1] = 244 /\ n >= 2 /\ b[2] >= 128 /\ b[2] <= 143 /\ c(3) /\ c(4) THEN 4
        ELSE 0

RECURSIVE Utf8Valid(_)
Utf8Valid(b) ==
    IF b = <<>> THEN TRUE
    ELSE IF Utf8Width(b) = 0 THEN FALSE
    ELSE Utf8Valid(SubSeq(b, Utf8Width(b) + 1, Len(b)))

\* std::str::from_utf8: the same bytes seen as text, or an error
from_utf8(b) == IF Utf8Valid(b) THEN Ok(b) ELSE Err("Utf8Error")

\* read_to_end on the connection: read until read returns 0
RECURSIVE drain(_, _)
drain(r, out) ==
    IF r.ret.val = 0 THEN [out |-> out, buf |-> r.buf]
    ELSE drain(read(r.buf, 2), out \o r.out)
read_to_end(buf) == drain(read(buf, 2), <<>>)

\* the end of send once write has returned Ok and the read buffer is drained
send_read(w, drained, reply) ==
    [sid |-> w.sid, buf |-> drained.buf, post |-> w.post, wret |-> w.ret,
     got |-> drained.out,
     ret |-> IF reply.tls_ok THEN Ok(reply) ELSE Err("TLSError")]

\* send once write has returned w
send_written(w, reply) ==
    IF ~w.ret.ok THEN
        [sid |-> w.sid, buf |-> w.buf, post |-> w.post, wret |-> w.ret,
         got |-> <<>>, ret |-> Err(w.ret.err)]
    ELSE send_read(w, read_to_end(w.buf), reply)

\* VeracruzClient::send: one TLS record goes out through write, the read buffer is
\* drained through read, and the engine yields the reply or fails.
\* reply.parsed stands for parse_runtime_manager_response succeeding on the reply.
send(sid, buf, data, http, reply) ==
    send_written(write(sid, buf, data, http), reply)

\* VeracruzClient::check_policy_hash, given what send returned for the probe
\* the comparison of check_policy_hash with the mismatch branch lost
compare_policy_hash_any(local_hash, received_hash) ==
    IF ~received_hash.ok THEN Err("Utf8Error") ELSE Ok(<<>>)

\* the SUCCESS arm of check_policy_hash: the reported hash as text against the
\* hash the client holds
compare_policy_hash(local_hash, received_hash) ==
    IF ~received_hash.ok THEN Err("Utf8Error")
    ELSE IF local_hash # received_hash.val THEN Err("MismatchError check_policy_hash")
    ELSE Ok(<<>>)

\* check_policy_hash with the status of the response not looked at
check_policy_hash_any_status(local_hash, sent) ==
    IF ~sent.ok THEN Err(sent.err)
    ELSE IF ~sent.val.parsed THEN Err("TransportProtocolError")
    ELSE compare_policy_hash(local_hash, from_utf8(sent.val.policy_hash))

\* VeracruzClient::check_policy_hash, given what send returned for the probe
check_policy_hash(local_hash, sent) ==
    IF ~sent.ok THEN Err(sent.err)
    ELSE IF ~sent.val.parsed THEN Err("TransportProtocolError")
    ELSE IF sent.val.status = "SUCCESS" THEN
        compare_policy_hash(local_hash, from_utf8(sent.val.policy_hash))
    ELSE Err("ResponseError check_policy_hash")

\* the request each call serializes and hands to send
RequestOf(op) ==
    CASE op = "send_program" -> "SendProgram"
      [] op = "send_data" -> "SendData"
      [] op = "request_compute" -> "RequestCompute"
      [] op = "get_results" -> "ReadFile"
      [] op = "request_shutdown" -> "RequestShutdown"

\* the ResponseError of each call, with the name the call puts in it
ResponseErrorName(op) ==
    CASE op = "send_program" -> "ResponseError send_program"
      [] op = "send_data" -> "ResponseError send_data"
      [] op = "request_compute" -> "ResponseError request_compute"
      [] op = "get_results" -> "ResponseError get_result"

\* VeracruzClientError::ResponseError(name, status)
ResponseError(op, status) == ResponseErrorName(op) \o " " \o status

\* a data-plane call that takes the result without asking has_result()
call_result_unchecked(op, sent) ==
    IF ~sent.ok THEN Err(sent.err)
    ELSE IF ~sent.val.parsed THEN Err("TransportProtocolError")
    ELSE IF sent.val.status # "SUCCESS" THEN Err(ResponseError(op, sent.val.status))
    ELSE IF op \in {"send_program", "send_data"} THEN Ok(<<>>)
    ELSE Ok(sent.val.result)

\* what a data-plane call returns, given what send returned for its request
call_result(op, sent) ==
    IF ~sent.ok THEN Err(sent.err)
    ELSE IF ~sent.val.parsed THEN Err("TransportProtocolError")
    ELSE IF sent.val.status # "SUCCESS" THEN Err(ResponseError(op, sent.val.status))
    ELSE IF op \in {"send_program", "send_data"} THEN Ok(<<>>)
    ELSE IF ~sent.val.has_result THEN Err("VeracruzServerResponseNoResultError")
    ELSE Ok(sent.val.result)

\* VeracruzClient::request_shutdown's result, given what send returned
shutdown_result(sent) == IF ~sent.ok THEN Err(sent.err) ELSE Ok(<<>>)

---------------------------------------------------------------------------
(* The client: one VeracruzClient after with_policy_and_hash returned Ok. *)

\* the policy hash the client holds, as bytes ("ab")
LocalHash == <<97, 98>>

\* policy hashes the enclave may report: the same, another, ill-formed UTF-8, none
ReportedHashes == {LocalHash, <<97, 99>>, <<255>>, <<>>}

\* hex strings the policy may hold for a platform
LinuxEntries == {None, Some(<<"0", "0">>), Some(<<"z", "z">>)}
NitroEntries == {None, Some(<<"0", "a">>)}
Policies ==
    {[Linux |-> l, Nitro |-> n, IceCap |-> None] :
        l \in LinuxEntries, n \in NitroEntries}

\* what peer_cert() may hold after the handshake
PeerCerts ==
    {[state |-> "Err", parses |-> FALSE, ext |-> None],
     [state |-> "None", parses |-> FALSE, ext |-> None],
     [state |-> "Cert", parses |-> FALSE, ext |-> None],
     [state |-> "Cert", parses |-> TRUE, ext |-> None]}
    \cup {[state |-> "Cert", parses |-> TRUE, ext |-> Some(e)] :
            e \in {<<0>>, <<10>>, <<1>>}}

Reply(tls, parsed, st, h, has, d) ==
    [tls_ok |-> tls, parsed |-> parsed, status |-> st, policy_hash |-> h,
     has_result |-> has, result |-> d]

\* replies of the enclave as the TLS engine and the response parser deliver them:
\* the engine fails, the parser fails, or a response with a status and a payload
FailedReplies ==
    {Reply(FALSE, FALSE, "UNSET", <<>>, FALSE, <<>>),
     Reply(TRUE, FALSE, "UNSET", <<>>, FALSE, <<>>)}
\* replies to RequestPolicyHash
ProbeReplies ==
    FailedReplies
    \cup {Reply(TRUE, TRUE, "SUCCESS", h, FALSE, <<>>) : h \in ReportedHashes}
    \cup {Reply(TRUE, TRUE, "FAILED_NOT_READY", LocalHash, FALSE, <<>>)}
\* replies to the request of a data-plane call
PayloadReplies ==
    FailedReplies
    \cup {Reply(TRUE, TRUE, "SUCCESS", <<>>, FALSE, <<>>),
          Reply(TRUE, TRUE, "FAILED_NOT_READY", <<>>, FALSE, <<>>),
          Reply(TRUE, TRUE, "FAILED_INVALID_REQUEST", <<>>, TRUE, <<5>>)}
    \cup {Reply(TRUE, TRUE, "SUCCESS", <<>>, TRUE, d) : d \in {<<>>, <<5>>}}
\* replies to RequestShutdown
ShutdownReplies ==
    {Reply(FALSE, FALSE, "UNSET", <<>>, FALSE, <<>>),
     Reply(TRUE, TRUE, "SUCCESS", <<>>, FALSE, <<>>)}

\* HTTP round trips the client meets
ClientHttp ==
    {[kind |-> "reqwest send", posted |-> TRUE, body |-> <<>>],
     [kind |-> "reqwest bad status", posted |-> TRUE, body |-> <<>>],
     [kind |-> "reqwest text", posted |-> TRUE, body |-> <<>>],
     [kind |-> "ok", posted |-> TRUE, body |-> <<>>],
     [kind |-> "ok", posted |-> TRUE, body |-> Join(<<<<"7">>, base64_encode(<<1>>)>>)],
     [kind |-> "ok", posted |-> TRUE, body |-> Join(<<<<"8">>, base64_encode(<<1>>)>>)]}

\* the TLS record a request is encrypted to: opaque bytes
ClientRecords == {<<1>>}

DataPlaneOps == {"send_program", "send_data", "request_compute", "get_results"}
NoCall == [op |-> "none", tainted |-> FALSE]

InitClient ==
    /\ policy \in Policies
    /\ policy_hash = LocalHash
    /\ peer_cert \in PeerCerts
    /\ pc = "idle"
    /\ call = NoCall
    /\ trace = <<>>
    /\ ret = None
    /\ ncalls = 0
    /\ check_failed = FALSE

\* a reply the engine can deliver after this round trip: no reply is successfully
\* parsed out of an empty read buffer
Feasible(s, reply) ==
    (s.wret.ok /\ s.got = <<>>) =>
        ~(reply.tls_ok /\ reply.parsed /\ reply.status = "SUCCESS")

\* the connection after send has run (last_post, assigned and relay_ret observe
\* the relay specification only)
SendEffect(s) ==
    /\ read_buffer' = s.buf
    /\ remote_session_id' = s.sid
    /\ UNCHANGED <<last_post, nposts, assigned, relay_ret, recv, fifo_vars,
                   other_vars>>

\* one step of a call as the trace records it; hash is the policy hash a reply
\* to the probe reported, arg the path a data-plane call was given and path the
\* path its request carries
Event(ev, what) ==
    [ev |-> ev, what |-> what, hash |-> <<>>, arg |-> <<>>, path |-> <<>>,
     has_result |-> FALSE, result |-> <<>>]
ResultName(r) == IF r.ok THEN "Ok" ELSE r.err

\* a request handed to send, how its HTTP round trip ended and, when send returned
\* a reply that parsed, the reply
Sent(request, http, sent) ==
    <<Event("request", request), Event("relay", http.kind)>>
    \o (IF sent.ok /\ sent.val.parsed
        THEN <<[ev |-> "reply", what |-> sent.val.status,
                hash |-> sent.val.policy_hash, arg |-> <<>>, path |-> <<>>,
                has_result |-> sent.val.has_result, result |-> sent.val.result]>>
        ELSE <<>>)

\* the `?` after check_runtime_hash() lost
checks_passed_policy_only(p, r) == p.ok

\* the `?` after check_policy_hash().await and after check_runtime_hash(): the call
\* goes on to its request only when both returned Ok
checks_passed(p, r) == p.ok /\ r.ok

\* the checks of a data-plane call once the probe has been through send:
\* p is what check_policy_hash returned, r what check_runtime_hash returns
Checked(op, s, http, p, r) ==
    /\ SendEffect(s)
    /\ call' = [op |-> op, tainted |-> check_failed]
    /\ ncalls' = ncalls + 1
    /\ trace' = Sent("RequestPolicyHash", http, s.ret)
                \o <<Event("check_policy_hash", ResultName(p))>>
                \o (IF p.ok THEN <<Event("check_runtime_hash", ResultName(r))>>
                    ELSE <<>>)
    /\ pc' = IF checks_passed(p, r) THEN "payload" ELSE "idle"
    /\ ret' = IF checks_passed(p, r) THEN None ELSE IF ~p.ok THEN Some(p) ELSE Some(r)
    /\ check_failed' = \/ check_failed
                       \/ s.ret.ok /\ s.ret.val.parsed /\ ~p.ok
                       \/ p.ok /\ ~r.ok

Probed(op, s, http, reply) ==
    /\ Feasible(s, reply)
    /\ Checked(op, s, http, check_policy_hash(policy_hash, s.ret),
               check_runtime_hash(policy, peer_cert))

\* the first half of a data-plane call: check_policy_hash().await? and then
\* check_runtime_hash()?
BeginCall(op) ==
    /\ pc = "idle"
    /\ ncalls < MaxCalls
    /\ \E data \in ClientRecords, http \in ClientHttp, reply \in ProbeReplies :
         Probed(op, send(remote_session_id, read_buffer, data, http, reply),
                http, reply)
    /\ UNCHANGED <<policy, policy_hash, peer_cert>>

send_program == BeginCall("send_program")
send_data == BeginCall("send_data")
request_compute == BeginCall("request_compute")
get_results == BeginCall("get_results")

\* policy_utils::parsers::enforce_leading_backslash: the path with its leading
\* '/' characters replaced by a single one
RECURSIVE strip_leading_slashes(_)
strip_leading_slashes(path) ==
    IF path # <<>> /\ Head(path) = "/" THEN strip_leading_slashes(Tail(path))
    ELSE path
enforce_leading_backslash(path) == <<"/">> \o strip_leading_slashes(path)

\* the path serialized as it was given
wire_path_raw(path) == path

\* `let path = enforce_leading_backslash(...)`: the path the request is
\* serialized with
wire_path(path) == enforce_leading_backslash(path)

\* paths a caller may pass: empty, relative, absolute, several leading '/'
Paths ==
    {<<>>, <<"a">>, <<"/", "a">>, <<"/", "/", "a", "/", "b">>}

\* the request a data-plane call hands to send
Request(op, path) ==
    [ev |-> "request", what |-> RequestOf(op), hash |-> <<>>, arg |-> path,
     path |-> wire_path(path), has_result |-> FALSE, result |-> <<>>]

Finished(s, http, reply, path) ==
    /\ Feasible(s, reply)
    /\ SendEffect(s)
    /\ trace' = trace \o <<Request(call.op, path)>>
                      \o Tail(Sent(RequestOf(call.op), http, s.ret))
    /\ ret' = Some(call_result(call.op, s.ret))
    /\ pc' = "idle"

\* the second half of a data-plane call: the request goes to send and the call
\* returns what the response says
FinishCall ==
    /\ pc = "payload"
    /\ \E data \in ClientRecords, http \in ClientHttp, reply \in PayloadReplies,
          path \in Paths :
         Finished(send(remote_session_id, read_buffer, data, http, reply),
                  http, reply, path)
    /\ UNCHANGED <<policy, policy_hash, peer_cert, call, ncalls, check_failed>>

\* a data-plane call whose path is not UTF-8 (to_str() is None) or whose request
\* does not serialize returns before send
RejectRequest ==
    /\ pc = "payload"
    /\ \E e \in {"InvalidPath", "TransportProtocolError"} : ret' = Some(Err(e))
    /\ pc' = "idle"
    /\ UNCHANGED <<read_buffer, remote_session_id, last_post, nposts, assigned,
                   relay_ret, recv, policy, policy_hash, peer_cert, call, trace,
                   ncalls, check_failed, fifo_vars, other_vars>>

\* request_shutdown probing the policy hash before its request
shutdown_requests_probed(http, sent) ==
    Sent("RequestPolicyHash", http, sent) \o Sent("RequestShutdown", http, sent)

\* what request_shutdown hands to send: serialize_request_shutdown() and nothing
\* before it
shutdown_requests(http, sent) == Sent("RequestShutdown", http, sent)

Shut(s, http, reply) ==
    /\ Feasible(s, reply)
    /\ SendEffect(s)
    /\ call' = [op |-> "request_shutdown", tainted |-> check_failed]
    /\ ncalls' = ncalls + 1
    /\ trace' = shutdown_requests(http, s.ret)
    /\ ret' = Some(shutdown_result(s.ret))
    /\ pc' = "idle"

\* VeracruzClient::request_shutdown
request_shutdown ==
    /\ pc = "idle"
    /\ ncalls < MaxCalls
    /\ \E data \in ClientRecords, http \in ClientHttp, reply \in ShutdownReplies :
         Shut(send(remote_session_id, read_buffer, data, http, reply), http, reply)
    /\ UNCHANGED <<policy, policy_hash, peer_cert, check_failed>>

\* the connection ctx.establish left behind: the handshake has been relayed
Established ==
    /\ NoCodec
    /\ NoRoot
    /\ NoBuild
    /\ read_buffer = <<>>
    /\ remote_session_id \in {Some(0), Some(7)}
    /\ last_post = None
    /\ nposts = 0
    /\ assigned = None
    /\ relay_ret = None
    /\ NoWrite
    /\ delivered = <<>>
    /\ arrived = <<>>

Init == InitClient /\ Established /\ recv = <<>> /\ NoProxy

Next ==
    \/ send_program
    \/ send_data
    \/ request_compute
    \/ get_results
    \/ FinishCall
    \/ RejectRequest
    \/ request_shutdown

Spec == Init /\ [][Next]_vars

---------------------------------------------------------------------------
(* The relay specification: a connection as with_policy_and_hash creates it. *)

InitRelaySpec ==
    /\ InitRelay
    /\ policy = [Linux |-> None, Nitro |-> None, IceCap |-> None]
    /\ policy_hash = LocalHash
    /\ peer_cert = [state |-> "Err", parses |-> FALSE, ext |-> None]
    /\ pc = "idle"
    /\ call = NoCall
    /\ trace = <<>>
    /\ ret = None
    /\ ncalls = 0
    /\ check_failed = FALSE
    /\ recv = <<>>
    /\ NoProxy

NextRelay == RelayWrite \/ RelayRead

SpecRelay == InitRelaySpec /\ [][NextRelay]_vars

---------------------------------------------------------------------------
(* The read buffer and its history: every byte write appends and every byte  *)
(* read hands over is recorded.                                               *)

\* responses of the relay: no items, an id alone, one record, two records, an id
\* that does not parse, a record that does not decode between two that do
FifoBodies ==
    {<<>>, <<"7">>, Join(<<<<"7">>, GoodRecord>>),
     Join(<<<<"0">>, LongRecord, GoodRecord>>), Join(<<<<"x">>, GoodRecord>>),
     Join(<<<<"7">>, GoodRecord, BadRecord, GoodRecord>>)}
FifoOutcomes ==
    {[kind |-> "reqwest bad status", posted |-> TRUE, body |-> <<>>]}
        \cup {[kind |-> "ok", posted |-> TRUE, body |-> b] : b \in FifoBodies}

\* InsecureConnection::write, with the bytes it appends recorded
FifoWrite ==
    /\ nposts < MaxPosts
    /\ \E data \in RelayData, http \in FifoOutcomes :
         /\ WriteEffect(write(remote_session_id, read_buffer, data, http), http)
         /\ arrived' = arrived \o decoded_records(http)
    /\ UNCHANGED <<policy, policy_hash, peer_cert, pc, call, trace, ret, ncalls,
                   check_failed, recv, delivered, other_vars>>

\* InsecureConnection::read, with the bytes it returns recorded
FifoRead ==
    /\ \E n \in ReadLens :
         /\ ReadEffect(read(read_buffer, n), n)
         /\ delivered' = delivered \o read(read_buffer, n).out
    /\ UNCHANGED <<remote_session_id, last_post, nposts, assigned>>
    /\ UNCHANGED <<policy, policy_hash, peer_cert, pc, call, trace, ret, ncalls,
                   check_failed, recv, arrived, other_vars>>

NextFifo == FifoWrite \/ FifoRead

SpecFifo == InitRelaySpec /\ [][NextFifo]_vars

---------------------------------------------------------------------------
(* InsecureConnection::write step by step: the caller formats the request and *)
(* spawns the worker thread, the worker posts and waits for the response, the *)
(* caller joins the worker and processes the body. read and write take       *)
(* &mut self: neither starts while a write of the same connection runs.      *)

\* lines 62-73: the request is formatted and the worker thread spawned
WriteBegin ==
    /\ wpc = "idle"
    /\ nposts < MaxPosts
    /\ \E data \in RelayData : pending' = [data |-> data, http |-> NoOutcome]
    /\ wpc' = "spawned"
    /\ UNCHANGED <<read_buffer, remote_session_id, last_post, nposts, assigned,
                   relay_ret, in_flight, fifo_vars>>
    /\ UNCHANGED <<policy, policy_hash, peer_cert, pc, call, trace, ret, ncalls,
                   check_failed, recv, proxy_vars, codec_vars, root_vars, built>>

\* lines 74-76 fail, or the worker panics, before the request leaves
WorkerFails ==
    /\ wpc = "spawned"
    /\ \E http \in {h \in HttpFailures : ~h.posted} :
         pending' = [pending EXCEPT !.http = http]
    /\ wpc' = "ended"
    /\ UNCHANGED <<read_buffer, remote_session_id, last_post, nposts, assigned,
                   relay_ret, in_flight, fifo_vars>>
    /\ UNCHANGED <<policy, policy_hash, peer_cert, pc, call, trace, ret, ncalls,
                   check_failed, recv, proxy_vars, codec_vars, root_vars, built>>

\* lines 77-80: the worker sends the POST
WorkerPost ==
    /\ wpc = "spawned"
    /\ wpc' = "posting"
    /\ in_flight' = in_flight + 1
    /\ UNCHANGED <<read_buffer, remote_session_id, last_post, nposts, assigned,
                   relay_ret, pending, fifo_vars>>
    /\ UNCHANGED <<policy, policy_hash, peer_cert, pc, call, trace, ret, ncalls,
                   check_failed, recv, proxy_vars, codec_vars, root_vars, built>>

\* lines 80-85: the POST completes, with a response or with a failure, and the
\* worker ends
WorkerDone ==
    /\ wpc = "posting"
    /\ \E http \in {h \in HttpOutcomes : h.posted} :
         pending' = [pending EXCEPT !.http = http]
    /\ wpc' = "ended"
    /\ in_flight' = in_flight - 1
    /\ UNCHANGED <<read_buffer, remote_session_id, last_post, nposts, assigned,
                   relay_ret, fifo_vars>>
    /\ UNCHANGED <<policy, policy_hash, peer_cert, pc, call, trace, ret, ncalls,
                   check_failed, recv, proxy_vars, codec_vars, root_vars, built>>

\* the caller goes on without waiting for the worker
joined_detached(at) == at \in {"spawned", "posting", "ended"}

\* .join() of line 87 returns when the worker thread has ended
joined(at) == at = "ended"

\* lines 87-108: the caller joins the worker, processes the body and returns
WriteJoin ==
    /\ joined(wpc)
    /\ WriteEffect(write(remote_session_id, read_buffer, pending.data, pending.http),
                   pending.http)
    /\ wpc' = "idle"
    /\ pending' = NoPending
    /\ UNCHANGED <<in_flight, fifo_vars>>
    /\ UNCHANGED <<policy, policy_hash, peer_cert, pc, call, trace, ret, ncalls,
                   check_failed, recv, proxy_vars, codec_vars, root_vars, built>>

\* InsecureConnection::read between two writes
ReadBetween ==
    /\ wpc = "idle"
    /\ RelayRead

NextPost ==
    \/ WriteBegin
    \/ WorkerFails
    \/ WorkerPost
    \/ WorkerDone
    \/ WriteJoin
    \/ ReadBetween

SpecPost == InitRelaySpec /\ [][NextPost]_vars

---------------------------------------------------------------------------
(* The proxy attestation server (proxy-attestation-server/src/server.rs). *)

\* a bound on the calls of server in one process
MaxStarts == 2

\* what a router answers: an error, or what the handler it dispatched to returns
\* for the body of the request (the handlers are opaque: attestation::psa and
\* attestation::nitro turn evidence into a token)
Refused(e) == [err |-> e, handler |-> "none", input |-> ""]
attestation_token(handler, input_data) ==
    [err |-> "none", handler |-> handler, input |-> input_data]

\* cfg(any(feature = "linux", feature = "icecap")) and cfg(feature = "nitro")
psa_enabled(feats) == "linux" \in feats \/ "icecap" \in feats
nitro_enabled(feats) == "nitro" \in feats

\* psa_router taking the debug path for any request of a debug run
psa_router_debug(feats, debug, psa_request, input_data) ==
    IF psa_enabled(feats) THEN
        IF psa_request = "AttestationToken" \/ debug
        THEN attestation_token("psa::attestation_token", input_data)
        ELSE Refused("UnsupportedRequestError")
    ELSE Refused("UnimplementedRequestError")

\* psa_router matching the op by prefix
psa_router_any_token(feats, debug, psa_request, input_data) ==
    IF psa_enabled(feats) THEN
        IF psa_request \in {"AttestationToken", "AttestationTokens"}
        THEN attestation_token("psa::attestation_token", input_data)
        ELSE Refused("UnsupportedRequestError")
    ELSE Refused("UnimplementedRequestError")

\* psa_router of a build with these features, in a process whose DEBUG_MODE is
\* debug (the router does not load it)
psa_router(feats, debug, psa_request, input_data) ==
    IF psa_enabled(feats) THEN
        IF psa_request = "AttestationToken"
        THEN attestation_token("psa::attestation_token", input_data)
        ELSE Refused("UnsupportedRequestError")
    ELSE Refused("UnimplementedRequestError")

\* nitro_router, likewise
nitro_router(feats, debug, nitro_request, input_data) ==
    IF nitro_enabled(feats) THEN
        IF nitro_request = "AttestationToken"
        THEN attestation_token("nitro::attestation_token", input_data)
        ELSE Refused("UnsupportedRequestError")
    ELSE Refused("UnimplementedRequestError")

\* server going on to bind when load_ca_key has failed
server_ignores_key(debug, cert_ok, key_ok, bind_ok) ==
    IF ~cert_ok THEN
        [ret |-> Err("load_ca_certificate returned an error"),
         steps |-> <<"load_ca_certificate">>, bound |-> FALSE]
    ELSE IF ~bind_ok THEN
        [ret |-> Err("binding error"),
         steps |-> <<"load_ca_certificate", "load_ca_key", "bind">>, bound |-> FALSE]
    ELSE
        [ret |-> Ok("Server"),
         steps |-> <<"load_ca_certificate", "load_ca_key", "bind", "run">>,
         bound |-> TRUE]

\* server(url, ca_cert_path, ca_key_path, debug) when the two loads and the bind
\* end as cert_ok, key_ok and bind_ok say: what it returns, the steps it takes in
\* order and whether it leaves a listener bound and started
server(debug, cert_ok, key_ok, bind_ok) ==
    IF ~cert_ok THEN
        [ret |-> Err("load_ca_certificate returned an error"),
         steps |-> <<"load_ca_certificate">>, bound |-> FALSE]
    ELSE IF ~key_ok THEN
        [ret |-> Err("load_ca_key returned an error"),
         steps |-> <<"load_ca_certificate", "load_ca_key">>, bound |-> FALSE]
    ELSE IF ~bind_ok THEN
        [ret |-> Err("binding error"),
         steps |-> <<"load_ca_certificate", "load_ca_key", "bind">>, bound |-> FALSE]
    ELSE
        [ret |-> Ok("Server"),
         steps |-> <<"load_ca_certificate", "load_ca_key", "bind", "run">>,
         bound |-> TRUE]

\* the state after a call of server that went as started
Started(started, debug, cert_ok, key_ok) ==
    /\ debug_mode' = (debug_mode \/ debug)
    /\ listeners' = listeners + (IF started.bound THEN 1 ELSE 0)
    /\ nstarts' = nstarts + 1
    /\ server_ret' = Some([ret |-> started.ret, steps |-> started.steps,
                           debug |-> debug, cert_ok |-> cert_ok, key_ok |-> key_ok,
                           before |-> listeners])

\* a call of server
ServerStart ==
    /\ nstarts < MaxStarts
    /\ \E debug \in BOOLEAN, cert_ok \in BOOLEAN, key_ok \in BOOLEAN,
          bind_ok \in BOOLEAN :
         Started(server(debug, cert_ok, key_ok, bind_ok), debug, cert_ok, key_ok)
    /\ UNCHANGED <<features, proxy_ret>>
    /\ UNCHANGED <<read_buffer, remote_session_id, last_post, nposts, assigned,
                   relay_ret, policy, policy_hash, peer_cert, pc, call, trace, ret,
                   ncalls, check_failed, recv, post_vars, fifo_vars, codec_vars,
                   root_vars, built>>

\* the {op} of a request and its body
ProxyOps == {"AttestationToken", "AttestationTokens", "attestationtoken", "Start", ""}
ProxyInputs == {"evidence", ""}

\* a request to a route and its response; twin is the response of the same build
\* to the same request in a process started with the other debug argument
Routed(route, op, input_data, resp, twin) ==
    /\ proxy_ret' = Some([route |-> route, op |-> op, input |-> input_data,
                          resp |-> resp, twin |-> twin])
    /\ UNCHANGED <<features, debug_mode, listeners, nstarts, server_ret>>
    /\ UNCHANGED <<read_buffer, remote_session_id, last_post, nposts, assigned,
                   relay_ret, policy, policy_hash, peer_cert, pc, call, trace, ret,
                   ncalls, check_failed, recv, post_vars, fifo_vars, codec_vars,
                   root_vars, built>>

\* POST /PSA/{psa_request} on a running server
PsaRequest ==
    /\ listeners > 0
    /\ \E op \in ProxyOps, input_data \in ProxyInputs :
         Routed("PSA", op, input_data,
                psa_router(features, debug_mode, op, input_data),
                psa_router(features, ~debug_mode, op, input_data))

\* POST /Nitro/{nitro_request} on a running server
NitroRequest ==
    /\ listeners > 0
    /\ \E op \in ProxyOps, input_data \in ProxyInputs :
         Routed("Nitro", op, input_data,
                nitro_router(features, debug_mode, op, input_data),
                nitro_router(features, ~debug_mode, op, input_data))

\* a build of the server with any set of platform features, not yet started
InitProxy ==
    /\ features \in SUBSET {"linux", "icecap", "nitro"}
    /\ debug_mode = FALSE
    /\ listeners = 0
    /\ nstarts = 0
    /\ server_ret = None
    /\ proxy_ret = None
    /\ InitRelay
    /\ policy = [Linux |-> None, Nitro |-> None, IceCap |-> None]
    /\ policy_hash = LocalHash
    /\ peer_cert = [state |-> "Err", parses |-> FALSE, ext |-> None]
    /\ pc = "idle"
    /\ call = NoCall
    /\ trace = <<>>
    /\ ret = None
    /\ ncalls = 0
    /\ check_failed = FALSE
    /\ recv = <<>>

NextProxy == ServerStart \/ PsaRequest \/ NitroRequest

SpecProxy == InitProxy /\ [][NextProxy]_vars

---------------------------------------------------------------------------
(* The framed transport (io-utils/src/tcp.rs) carrying NitroRootEnclaveMessage *)
(* (veracruz-utils/src/platform/nitro/nitro.rs), serialized by bincode:       *)
(* little-endian fixed-width integers, a u32 variant index, a u64 length in   *)
(* front of every Vec and String.                                             *)

\* a bound on the messages sent on one socket
MaxMsgs == 2

\* a value of NitroRootEnclaveMessage: the variant and its fields (the fields a
\* variant does not have are empty)
Msg(tag, st, s, a, b, n, chain) ==
    [tag |-> tag, st |-> st, s |-> s, a |-> a, b |-> b, n |-> n, chain |-> chain]
NoMsg == Msg("none", "", <<>>, <<>>, <<>>, 0, <<>>)

\* the variants in declaration order (index 0 first) and those of Status
Variants ==
    <<"Status", "FetchFirmwareVersion", "FirmwareVersion", "SetCertChain",
      "NativeAttestation", "TokenData", "StartProxy", "ChallengeData",
      "ProxyAttestation", "CertChain", "Success">>
StatusCodes == <<"Success", "Fail", "Unimplemented">>
IndexOf(names, name) == CHOOSE i \in 1..Len(names) : names[i] = name

\* the w little-endian bytes of n >= 0, and the value of little-endian bytes
RECURSIVE le_bytes(_, _)
le_bytes(n, w) == IF w = 0 THEN <<>> ELSE <<n % 256>> \o le_bytes(n \div 256, w - 1)
RECURSIVE le_value(_)
le_value(bs) == IF bs = <<>> THEN 0 ELSE bs[1] + 256 * le_value(Tail(bs))

\* i32 as four bytes, two's complement
encode_i32(n) ==
    IF n >= 0 THEN le_bytes(n, 4)
    ELSE LET m == le_bytes((n + 2147483647) + 1, 4)
         IN  <<m[1], m[2], m[3], m[4] + 128>>
decode_i32(bs) ==
    IF bs[4] < 128 THEN le_value(bs)
    ELSE (le_value(<<bs[1], bs[2], bs[3], bs[4] - 128>>) - 2147483647) - 1

encode_vec(v) == le_bytes(Len(v), 8) \o v
RECURSIVE encode_vecs(_)
encode_vecs(vs) ==
    IF vs = <<>> THEN <<>> ELSE encode_vec(Head(vs)) \o encode_vecs(Tail(vs))

\* the fields of a variant, in declaration order
encode_fields(v) ==
    CASE v.tag = "Status" -> le_bytes(IndexOf(StatusCodes, v.st) - 1, 4)
      [] v.tag = "FirmwareVersion" -> encode_vec(v.s)
      [] v.tag \in {"SetCertChain", "TokenData"} -> encode_vec(v.a) \o encode_vec(v.b)
      [] v.tag \in {"NativeAttestation", "ChallengeData", "ProxyAttestation"} ->
            encode_vec(v.a) \o encode_i32(v.n)
      [] v.tag = "CertChain" -> le_bytes(Len(v.chain), 8) \o encode_vecs(v.chain)
      [] OTHER -> <<>>

\* bincode::serialize of a message: the variant index, then the fields
serialize(v) == le_bytes(IndexOf(Variants, v.tag) - 1, 4) \o encode_fields(v)

\* reading from the front of a byte slice: a value and the rest, or a failure
Took(val, rest) == [ok |-> TRUE, val |-> val, rest |-> rest]
Short == [ok |-> FALSE, val |-> <<>>, rest |-> <<>>]
Drop(bs, k) == SubSeq(bs, k + 1, Len(bs))

\* a u32 (a variant index): values from 2^31 on stand for no variant
take_u32(bs) ==
    IF Len(bs) < 4 THEN Short
    ELSE IF bs[4] >= 128 THEN [ok |-> TRUE, val |-> -1, rest |-> Drop(bs, 4)]
    ELSE Took(le_value(SubSeq(bs, 1, 4)), Drop(bs, 4))

take_i32(bs) ==
    IF Len(bs) < 4 THEN Short ELSE Took(decode_i32(SubSeq(bs, 1, 4)), Drop(bs, 4))

\* a u64 length: one of 2^24 or more exceeds every slice
take_len(bs) ==
    IF Len(bs) < 8 THEN Short
    ELSE IF \E i \in 4..8 : bs[i] # 0 THEN Short
    ELSE Took(le_value(SubSeq(bs, 1, 3)), Drop(bs, 8))

\* the items of a Vec<u8> whose length has been read
take_items(len) ==
    IF ~len.ok \/ Len(len.rest) < len.val THEN Short
    ELSE Took(SubSeq(len.rest, 1, len.val), Drop(len.rest, len.val))

take_vec(bs) == take_items(take_len(bs))

\* k more Vec<u8> of a Vec<Vec<u8>>
RECURSIVE take_vecs(_, _, _)
take_vecs(bs, k, acc) ==
    IF k = 0 THEN Took(acc, bs)
    ELSE IF ~take_vec(bs).ok THEN Short
    ELSE take_vecs(take_vec(bs).rest, k - 1, Append(acc, take_vec(bs).val))

take_chain(len) == IF ~len.ok THEN Short ELSE take_vecs(len.rest, len.val, <<>>)

\* the fields of each shape of variant
status_of(code) ==
    IF ~code.ok \/ code.val < 0 \/ code.val >= Len(StatusCodes) THEN Short
    ELSE Took(Msg("Status", StatusCodes[code.val + 1], <<>>, <<>>, <<>>, 0, <<>>),
              code.rest)
string_of(tag, s) ==
    IF ~s.ok \/ ~Utf8Valid(s.val) THEN Short
    ELSE Took(Msg(tag, "", s.val, <<>>, <<>>, 0, <<>>), s.rest)
second_vec_of(tag, a, b) ==
    IF ~b.ok THEN Short ELSE Took(Msg(tag, "", <<>>, a, b.val, 0, <<>>), b.rest)
two_vecs_of(tag, a) ==
    IF ~a.ok THEN Short ELSE second_vec_of(tag, a.val, take_vec(a.rest))
i32_of(tag, a, n) ==
    IF ~n.ok THEN Short ELSE Took(Msg(tag, "", <<>>, a, <<>>, n.val, <<>>), n.rest)
vec_i32_of(tag, a) ==
    IF ~a.ok THEN Short ELSE i32_of(tag, a.val, take_i32(a.rest))
chain_of(tag, c) ==
    IF ~c.ok THEN Short ELSE Took(Msg(tag, "", <<>>, <<>>, <<>>, 0, c.val), c.rest)
unit_of(tag, rest) == Took(Msg(tag, "", <<>>, <<>>, <<>>, 0, <<>>), rest)

\* the variant whose index has been read
variant_of(tag, rest) ==
    CASE tag = "Status" -> status_of(take_u32(rest))
      [] tag = "FirmwareVersion" -> string_of(tag, take_vec(rest))
      [] tag \in {"SetCertChain", "TokenData"} -> two_vecs_of(tag, take_vec(rest))
      [] tag \in {"NativeAttestation", "ChallengeData", "ProxyAttestation"} ->
            vec_i32_of(tag, take_vec(rest))
      [] tag = "CertChain" -> chain_of(tag, take_chain(take_len(rest)))
      [] OTHER -> unit_of(tag, rest)

decode_variant(index) ==
    IF ~index.ok \/ index.val < 0 \/ index.val >= Len(Variants) THEN Short
    ELSE variant_of(Variants[index.val + 1], index.rest)

\* bincode::deserialize of a slice: the message at its front (bytes after it are
\* left unread), or an error
deserialize(bs) == decode_variant(take_u32(bs))

\* fd::send_buffer: the length of the buffer as a u64, little-endian, then the
\* buffer
send_buffer(sock, buffer) == sock \o le_bytes(Len(buffer), 8) \o buffer

\* fd::receive_buffer: reads the length, then that many bytes
receive_buffer(sock) == take_vec(sock)

\* send_message writing the serialized message without its length
send_message_unframed(sock, data) == sock \o serialize(data)

\* send_message when the socket takes every byte: the bytes on the socket after it
send_message(sock, data) == send_buffer(sock, serialize(data))

RecvOk(v) == [ok |-> TRUE, val |-> v, err |-> "none"]
RecvErr(e) == [ok |-> FALSE, val |-> NoMsg, err |-> e]

\* what receive_message returns for the buffer receive_buffer has read
received_message(message) ==
    IF message.ok THEN RecvOk(message.val) ELSE RecvErr("deserialize")

\* receive_message: what it returns and the bytes it leaves on the socket
receive_message(sock) ==
    IF ~receive_buffer(sock).ok THEN [ret |-> RecvErr("receive"), socket |-> <<>>]
    ELSE [ret |-> received_message(deserialize(receive_buffer(sock).val)),
          socket |-> receive_buffer(sock).rest]

\* byte vectors, device and challenge ids, certificate chains
I32Min == (-2147483647) - 1
Messages ==
    {Msg("Status", st, <<>>, <<>>, <<>>, 0, <<>>) :
        st \in {"Success", "Fail", "Unimplemented"}}
    \cup {Msg(t, "", <<>>, <<>>, <<>>, 0, <<>>) :
        t \in {"FetchFirmwareVersion", "StartProxy", "Success"}}
    \cup {Msg("FirmwareVersion", "", s, <<>>, <<>>, 0, <<>>) :
        s \in {<<>>, <<49, 46, 48>>}}
    \cup {Msg(t, "", <<>>, ab[1], ab[2], 0, <<>>) :
        t \in {"SetCertChain", "TokenData"},
        ab \in {<<<<>>, <<1>>>>, <<<<1>>, <<>>>>, <<<<1, 0, 0, 0, 0, 0, 0, 0, 7>>, <<>>>>}}
    \cup {Msg("NativeAttestation", "", <<>>, <<9>>, <<>>, n, <<>>) :
        n \in {0, -1, 256, 2147483647, I32Min}}
    \cup {Msg(t, "", <<>>, <<>>, <<>>, 1, <<>>) :
        t \in {"ChallengeData", "ProxyAttestation"}}
    \cup {Msg("CertChain", "", <<>>, <<>>, <<>>, 0, c) :
        c \in {<<>>, <<<<>>>>, <<<<1>>>>, <<<<1>>, <<>>>>, <<<<>>, <<1>>>>}}

\* a call of send_message; when the write fails part of the frame may have left
SendMessage ==
    /\ stream = "open"
    /\ Len(sent_msgs) < MaxMsgs
    /\ \E data \in Messages, io_ok \in BOOLEAN :
         IF io_ok THEN
             /\ socket' = send_message(socket, data)
             /\ sent_msgs' = Append(sent_msgs, data)
             /\ padding' = Append(padding, <<>>)
             /\ stream' = stream
         ELSE
             /\ \E k \in {0, 9} :
                  socket' = socket \o SubSeq(send_message(<<>>, data), 1,
                                              Min(k, Len(send_message(<<>>, data))))
             /\ sent_msgs' = sent_msgs
             /\ padding' = padding
             /\ stream' = "failed"
    /\ UNCHANGED received_msgs
    /\ UNCHANGED <<read_buffer, remote_session_id, last_post, nposts, assigned,
                   relay_ret, policy, policy_hash, peer_cert, pc, call, trace, ret,
                   ncalls, check_failed, recv, post_vars, fifo_vars, proxy_vars,
                   root_vars, built>>

\* a call of receive_message on the peer: it returns when a whole frame has
\* arrived or the stream has ended
ReceiveMessage ==
    /\ receive_buffer(socket).ok \/ stream = "failed"
    /\ Len(received_msgs) <= MaxMsgs
    /\ received_msgs' = Append(received_msgs, receive_message(socket).ret)
    /\ socket' = receive_message(socket).socket
    /\ UNCHANGED <<stream, sent_msgs, padding>>
    /\ UNCHANGED <<read_buffer, remote_session_id, last_post, nposts, assigned,
                   relay_ret, policy, policy_hash, peer_cert, pc, call, trace, ret,
                   ncalls, check_failed, recv, post_vars, fifo_vars, proxy_vars,
                   root_vars, built>>

NextCodec == SendMessage \/ ReceiveMessage

SpecCodec == InitRelaySpec /\ [][NextCodec]_vars

\* bytes a frame may carry after the encoding of its message
ExtraBytes == {<<0>>, <<255, 1>>}

\* messages a peer sends in a frame that is longer than their encoding
PaddedMessages ==
    {Msg("Success", "", <<>>, <<>>, <<>>, 0, <<>>),
     Msg("Status", "Fail", <<>>, <<>>, <<>>, 0, <<>>),
     Msg("ChallengeData", "", <<>>, <<1>>, <<>>, 1, <<>>),
     Msg("CertChain", "", <<>>, <<>>, <<>>, 0, <<<<1>>>>)}

\* a peer that writes its frame with fd::send_buffer itself: the payload is the
\* encoding of a message followed by extra bytes
SendPadded ==
    /\ stream = "open"
    /\ Len(sent_msgs) < MaxMsgs
    /\ \E data \in PaddedMessages, extra \in ExtraBytes :
         /\ socket' = send_buffer(socket, serialize(data) \o extra)
         /\ sent_msgs' = Append(sent_msgs, data)
         /\ padding' = Append(padding, extra)
    /\ UNCHANGED <<stream, received_msgs>>
    /\ UNCHANGED <<read_buffer, remote_session_id, last_post, nposts, assigned,
                   relay_ret, policy, policy_hash, peer_cert, pc, call, trace, ret,
                   ncalls, check_failed, recv, post_vars, fifo_vars, proxy_vars,
                   root_vars, built>>

NextDecode == SendMessage \/ SendPadded \/ ReceiveMessage

\* receive_message reading frames of any peer
SpecDecode == InitRelaySpec /\ [][NextDecode]_vars

---------------------------------------------------------------------------
(* The root enclave behind the framed transport.  Only its messages            *)
(* (NitroRootEnclaveMessage, nitro.rs lines 22-81) are part of these sources;  *)
(* its handling of them follows the protocol description: the requests         *)
(* NativeAttestation, StartProxy, ProxyAttestation, SetCertChain are accepted  *)
(* in that order, one challenge id is minted per StartProxy and consumed by    *)
(* the first ProxyAttestation that names it.                                   *)

Fail == Msg("Status", "Fail", <<>>, <<>>, <<>>, 0, <<>>)

\* what a request leaves behind: the enclave and its reply
Handled(e, reply) == [enclave |-> e, reply |-> reply]

\* the enclave in its next provisioning state
advance(e, state) == [e EXCEPT !.state = state]

\* the proxy's verdict on the evidence of a ProxyAttestation
verify_token(token) == token = <<1>>

\* FetchFirmwareVersion: a query, answered in every state
fetch_firmware_version(e) ==
    Handled(e, Msg("FirmwareVersion", "", <<49, 46, 48>>, <<>>, <<>>, 0, <<>>))

\* NativeAttestation(nonce, device_id)
native_attestation(e) ==
    IF e.state # "UNPROVISIONED" THEN Handled(e, Fail)
    ELSE Handled(advance(e, "PROXY_CHALLENGED"),
                 Msg("TokenData", "", <<>>, <<1>>, <<2>>, 0, <<>>))

\* StartProxy: mints the next challenge id and enters it in the challenge table
start_proxy(e) ==
    IF e.state # "PROXY_CHALLENGED" THEN Handled(e, Fail)
    ELSE Handled([state |-> "CHALLENGE_ISSUED",
                  challenges |-> e.challenges \cup {e.minted + 1},
                  minted |-> e.minted + 1],
                 Msg("ChallengeData", "", <<>>, <<7>>, <<>>, e.minted + 1, <<>>))

\* the challenge table after a ProxyAttestation kept the entry it named
consume_kept(e, challenge_id, accepted) ==
    IF accepted THEN [e EXCEPT !.challenges = @ \ {challenge_id}] ELSE e

\* the challenge table after a ProxyAttestation named challenge_id
consume(e, challenge_id, accepted) == [e EXCEPT !.challenges = @ \ {challenge_id}]

\* ProxyAttestation(token, challenge_id)
proxy_attestation(e, token, challenge_id) ==
    IF e.state # "CHALLENGE_ISSUED" \/ challenge_id \notin e.challenges
    THEN Handled(e, Fail)
    ELSE IF ~verify_token(token)
    THEN Handled(consume(e, challenge_id, FALSE), Fail)
    ELSE Handled(advance(consume(e, challenge_id, TRUE), "ATTESTED"),
                 Msg("CertChain", "", <<>>, <<>>, <<>>, 0, <<<<1>>, <<2>>, <<3>>>>))

\* SetCertChain accepted in any state
set_cert_chain_any(e) ==
    Handled(advance(e, "READY"), Msg("Success", "", <<>>, <<>>, <<>>, 0, <<>>))

\* SetCertChain(root_cert, ca_cert)
set_cert_chain(e) ==
    IF e.state # "ATTESTED" THEN Handled(e, Fail)
    ELSE Handled(advance(e, "READY"), Msg("Success", "", <<>>, <<>>, <<>>, 0, <<>>))

\* the root enclave's answer to one message
root_enclave(e, msg) ==
    CASE msg.tag = "FetchFirmwareVersion" -> fetch_firmware_version(e)
      [] msg.tag = "NativeAttestation" -> native_attestation(e)
      [] msg.tag = "StartProxy" -> start_proxy(e)
      [] msg.tag = "ProxyAttestation" -> proxy_attestation(e, msg.a, msg.n)
      [] msg.tag = "SetCertChain" -> set_cert_chain(e)
      [] OTHER -> Handled(e, Fail)

\* one turn of the event loop: a request is read, handled and answered
Handle(msg) ==
    /\ Len(root_log) < MaxRequests
    /\ enclave' = root_enclave(enclave, msg).enclave
    /\ root_log' = Append(root_log, [req |-> msg, before |-> enclave,
                                     reply |-> root_enclave(enclave, msg).reply])
    /\ UNCHANGED <<read_buffer, remote_session_id, last_post, nposts, assigned,
                   relay_ret, policy, policy_hash, peer_cert, pc, call, trace, ret,
                   ncalls, check_failed, recv, post_vars, fifo_vars, proxy_vars,
                   codec_vars, built>>

FetchFirmwareVersion == Handle(Msg("FetchFirmwareVersion", "", <<>>, <<>>, <<>>, 0, <<>>))

NativeAttestation ==
    \E device_id \in {0, 5} :
        Handle(Msg("NativeAttestation", "", <<>>, <<9>>, <<>>, device_id, <<>>))

StartProxy == Handle(Msg("StartProxy", "", <<>>, <<>>, <<>>, 0, <<>>))

ProxyAttestation ==
    \E token \in {<<0>>, <<1>>}, challenge_id \in {1, 2} :
        Handle(Msg("ProxyAttestation", "", <<>>, token, <<>>, challenge_id, <<>>))

SetCertChain == Handle(Msg("SetCertChain", "", <<>>, <<1>>, <<2>>, 0, <<>>))

\* a message that is no request: a reply variant arrives at the enclave
UnexpectedVariant == Handle(Msg("Success", "", <<>>, <<>>, <<>>, 0, <<>>))

NextRoot ==
    \/ FetchFirmwareVersion
    \/ NativeAttestation
    \/ StartProxy
    \/ ProxyAttestation
    \/ SetCertChain
    \/ UnexpectedVariant

SpecRoot == InitRelaySpec /\ [][NextRoot]_vars

---------------------------------------------------------------------------
(* Construction of a client: VeracruzClient::with_policy_and_hash on the     *)
(* certificate file, the key file and the policy it is given.                *)

\* read_cert: the file is read, parsed as PEM and must hold one certificate
read_cert(cfg) ==
    IF ~cfg.cert_readable THEN Err("IOError")
    ELSE IF ~cfg.cert_pem_ok THEN Err("TLSUnspecifiedError")
    ELSE IF cfg.cert_count = 1 THEN Ok(<<>>)
    ELSE Err("InvalidLengthError cert_vec")

\* read_private_key
read_private_key(cfg) ==
    IF ~cfg.key_parses THEN Err("TLSUnspecifiedError") ELSE Ok(<<>>)

\* check_certificate_validity looking at the expiry before the key
check_certificate_validity_expiry_first(cfg) ==
    IF ~cfg.cert_readable THEN Err("IOError")
    ELSE IF ~cfg.cert_pem_ok THEN Err("X509ParserError")
    ELSE IF cfg.expired THEN Err("CertificateExpireError")
    ELSE IF ~cfg.key_matches THEN Err("MismatchError public_key")
    ELSE Ok(<<>>)

\* check_certificate_validity: the file is opened and parsed again, the public
\* key of the certificate is compared with the one of the private key, then the
\* validity period is looked at
check_certificate_validity(cfg) ==
    IF ~cfg.cert_readable THEN Err("IOError")
    ELSE IF ~cfg.cert_pem_ok THEN Err("X509ParserError")
    ELSE IF ~cfg.key_matches THEN Err("MismatchError public_key")
    ELSE IF cfg.expired THEN Err("CertificateExpireError")
    ELSE Ok(<<>>)

\* the proxy service certificate of the policy through from_pem_multiple
proxy_service_cert(cfg) ==
    IF cfg.proxy_cert_parses THEN Ok(<<>>) ELSE Err("X509ParserError")

\* lookup_ciphersuite_mbedtls(policy.ciphersuite()).ok_or_else(...)
policy_ciphersuite(cfg) ==
    IF cfg.ciphersuite_known THEN Ok(<<>>) ELSE Err("TLSInvalidCiphersuiteError")

\* ctx.establish(conn, None): the handshake goes through the relay, its first
\* record in a POST
establish(cfg) == IF cfg.handshake_ok THEN Ok(<<>>) ELSE Err("TLSError")

\* the steps of with_policy_and_hash in the order of lines 230-274
BuildSteps ==
    <<"read_cert", "read_private_key", "check_certificate_validity",
      "proxy_service_cert", "policy_ciphersuite", "establish">>

step_result(step, cfg) ==
    CASE step = "read_cert" -> read_cert(cfg)
      [] step = "read_private_key" -> read_private_key(cfg)
      [] step = "check_certificate_validity" -> check_certificate_validity(cfg)
      [] step = "proxy_service_cert" -> proxy_service_cert(cfg)
      [] step = "policy_ciphersuite" -> policy_ciphersuite(cfg)
      [] step = "establish" -> establish(cfg)

\* the `?` after each step: the first error ends the call; steps are the steps
\* the call has run, ret what it returns
RECURSIVE run_steps(_, _)
run_steps(cfg, i) ==
    IF i > Len(BuildSteps) THEN [ret |-> Ok(<<>>), steps |-> BuildSteps]
    ELSE IF ~step_result(BuildSteps[i], cfg).ok
    THEN [ret |-> step_result(BuildSteps[i], cfg), steps |-> SubSeq(BuildSteps, 1, i)]
    ELSE run_steps(cfg, i + 1)

\* VeracruzClient::with_policy_and_hash: what it returns, the steps it ran,
\* whether a client exists afterwards and the POSTs it has issued at least
with_policy_and_hash(cfg) ==
    [ret |-> run_steps(cfg, 1).ret,
     steps |-> run_steps(cfg, 1).steps,
     client |-> run_steps(cfg, 1).ret.ok,
     posts |-> IF Len(run_steps(cfg, 1).steps) = Len(BuildSteps) THEN 1 ELSE 0]

\* the files and the policy a caller may pass, and how the handshake ends
Configs ==
    [cert_readable : {TRUE}, cert_pem_ok : BOOLEAN, cert_count : 0..2,
     key_parses : BOOLEAN, key_matches : BOOLEAN, expired : BOOLEAN,
     proxy_cert_parses : BOOLEAN, ciphersuite_known : BOOLEAN,
     handshake_ok : BOOLEAN]

\* a call of with_policy_and_hash
NewClient ==
    /\ \E cfg \in Configs :
         built' = Some([cfg |-> cfg, out |-> with_policy_and_hash(cfg)])
    /\ UNCHANGED <<read_buffer, remote_session_id, last_post, nposts, assigned,
                   relay_ret, policy, policy_hash, peer_cert, pc, call, trace, ret,
                   ncalls, check_failed, recv, post_vars, fifo_vars, proxy_vars,
                   codec_vars, root_vars>>

NextNew == NewClient

SpecNew == InitRelaySpec /\ [][NextNew]_vars

---------------------------------------------------------------------------
(* The runtime-hash verifier on its own: compare_runtime_hash on every policy *)
(* and every received extension of the sets below.                           *)

\* hex strings a policy may hold for a platform: none, the hashes 00 and 0a in
\* both cases of the digits, the empty string, an odd length, a character that is
\* no hex digit
HashEntries ==
    {None, Some(<<>>), Some(<<"0", "0">>), Some(<<"0", "a">>), Some(<<"0", "A">>),
     Some(<<"0">>), Some(<<"z", "z">>)}
HashPolicies ==
    {[Linux |-> l, Nitro |-> n, IceCap |-> i] :
        l \in HashEntries, n \in HashEntries, i \in HashEntries}
ReceivedHashes == {<<>>, <<0>>, <<10>>, <<1>>}

InitHash ==
    /\ policy \in HashPolicies
    /\ recv \in ReceivedHashes
    /\ policy_hash = LocalHash
    /\ peer_cert = [state |-> "Cert", parses |-> TRUE, ext |-> Some(recv)]
    /\ pc = "idle"
    /\ call = NoCall
    /\ trace = <<>>
    /\ ret = None
    /\ ncalls = 0
    /\ check_failed = FALSE
    /\ InitRelay
    /\ NoProxy

CompareRuntimeHash ==
    /\ pc = "idle"
    /\ pc' = "compared"
    /\ ret' = Some(compare_runtime_hash(policy, recv))
    /\ UNCHANGED <<read_buffer, remote_session_id, last_post, nposts, assigned,
                   relay_ret, policy, policy_hash, peer_cert, call, trace, ncalls,
                   check_failed, recv, fifo_vars, other_vars>>

NextHash == CompareRuntimeHash

SpecHash == InitHash /\ [][NextHash]_vars

---------------------------------------------------------------------------
(* Properties of the client (Spec). *)

PayloadRequests == {"SendProgram", "SendData", "RequestCompute", "ReadFile"}
DataCall == call.op \in DataPlaneOps
Returned == pc = "idle" /\ IsSome(ret)
HasEvent(ev, what) ==
    \E i \in 1..Len(trace) : trace[i].ev = ev /\ trace[i].what = what
PayloadSent ==
    \E i \in 1..Len(trace) : trace[i].ev = "request" /\ trace[i].what \in PayloadRequests
\* the enclave answered the probe of the current call with status SUCCESS and a
\* policy hash
ProbeAnswered ==
    /\ Len(trace) >= 3
    /\ trace[1] = Event("request", "RequestPolicyHash")
    /\ trace[3].ev = "reply"
    /\ trace[3].what = "SUCCESS"
\* the call failed as its check_policy_hash failed
FailedAsProbe == ~Unwrap(ret).ok /\ HasEvent("check_policy_hash", Unwrap(ret).err)

\* C1: a data-plane call hands its request to send only after check_policy_hash
\* and then check_runtime_hash returned Ok in that call, and a data-plane call
\* that returns Ok has handed its request to send.
C1_ChecksBeforePayload ==
    /\ \A k \in 1..Len(trace) :
         (trace[k].ev = "request" /\ trace[k].what \in PayloadRequests) =>
            \E i \in 1..k, j \in 1..k :
                /\ i < j /\ j < k
                /\ trace[i] = Event("check_policy_hash", "Ok")
                /\ trace[j] = Event("check_runtime_hash", "Ok")
    /\ (DataCall /\ Returned /\ Unwrap(ret).ok) => PayloadSent

C1_Witness == DataCall /\ Returned /\ Unwrap(ret).ok /\ PayloadSent

\* the enclave reported, with status SUCCESS, a policy hash that differs from the
\* client's in a send_data call
C2_Mismatch ==
    call.op = "send_data" /\ ProbeAnswered /\ trace[3].hash # policy_hash

\* C2 as claimed: when the reported policy hash differs from the client's,
\* send_data fails with MismatchError of check_policy_hash and writes no SendData
\* request.
C2_MismatchError ==
    C2_Mismatch =>
        /\ Returned
        /\ Unwrap(ret) = Err("MismatchError check_policy_hash")
        /\ ~HasEvent("request", "SendData")

\* C2 amended: when the reported policy hash differs from the client's, send_data
\* fails and writes no SendData request; the error is MismatchError of
\* check_policy_hash when the reported bytes are well-formed UTF-8 and the UTF-8
\* conversion error when they are not.
C2_MismatchFails ==
    C2_Mismatch =>
        /\ Returned
        /\ Unwrap(ret) = IF Utf8Valid(trace[3].hash)
                         THEN Err("MismatchError check_policy_hash")
                         ELSE Err("Utf8Error")
        /\ ~HasEvent("request", "SendData")

C2_Witness ==
    /\ C2_Mismatch /\ Utf8Valid(trace[3].hash) /\ Returned
    /\ Unwrap(ret) = Err("MismatchError check_policy_hash")

\* the peer certificate parses and does not carry the runtime-hash extension
NoExtension ==
    peer_cert.state = "Cert" /\ peer_cert.parses /\ ~IsSome(peer_cert.ext)

\* C3 as claimed: without the extension on the peer certificate every data-plane
\* call fails with RuntimeHashExtensionMissing and sends nothing to the enclave.
C3_MissingSendsNothing ==
    (NoExtension /\ DataCall) =>
        /\ Returned
        /\ Unwrap(ret) = Err("RuntimeHashExtensionMissingError")
        /\ ~\E i \in 1..Len(trace) : trace[i].ev = "request"

\* C3 amended: without the extension on the peer certificate every data-plane
\* call fails and never hands its own request to send; the only request it sends
\* is the RequestPolicyHash probe, and it fails with RuntimeHashExtensionMissing
\* when check_policy_hash returned Ok and with the error of check_policy_hash
\* otherwise.
C3_MissingSendsNoPayload ==
    (NoExtension /\ DataCall) =>
        /\ Returned
        /\ ~Unwrap(ret).ok
        /\ ~PayloadSent
        /\ \A i \in 1..Len(trace) :
             trace[i].ev = "request" => trace[i].what = "RequestPolicyHash"
        /\ IF HasEvent("check_policy_hash", "Ok")
           THEN Unwrap(ret) = Err("RuntimeHashExtensionMissingError")
           ELSE FailedAsProbe

C3_Witness ==
    /\ NoExtension /\ DataCall /\ Returned
    /\ HasEvent("check_policy_hash", "Ok")
    /\ Unwrap(ret) = Err("RuntimeHashExtensionMissingError")

\* the policy lists runtime hashes for Linux and Nitro only and the extension of
\* the peer certificate differs from both, in a send_program call
C5_NoMatch ==
    /\ call.op = "send_program"
    /\ IsSome(policy.Linux) /\ IsSome(policy.Nitro) /\ ~IsSome(policy.IceCap)
    /\ hex_decode(Unwrap(policy.Linux)).ok /\ hex_decode(Unwrap(policy.Nitro)).ok
    /\ peer_cert.state = "Cert" /\ peer_cert.parses /\ IsSome(peer_cert.ext)
    /\ Unwrap(peer_cert.ext) # hex_decode(Unwrap(policy.Linux)).val
    /\ Unwrap(peer_cert.ext) # hex_decode(Unwrap(policy.Nitro)).val

\* C5 as claimed: with hashes X for Linux and Y for Nitro in the policy and an
\* extension Z different from both, send_program fails with
\* NoMatchingRuntimeIsolateHash and the program is not sent.
C5_NoMatchError ==
    C5_NoMatch =>
        /\ Returned
        /\ Unwrap(ret) = Err("NoMatchingRuntimeIsolateHash")
        /\ ~HasEvent("request", "SendProgram")

\* C5 amended: with hashes X for Linux and Y for Nitro in the policy and an
\* extension Z different from both, send_program fails and the program is not
\* sent; the error is NoMatchingRuntimeIsolateHash when check_policy_hash returned
\* Ok, and the error of check_policy_hash otherwise.
C5_NoMatchFails ==
    C5_NoMatch =>
        /\ Returned
        /\ ~HasEvent("request", "SendProgram")
        /\ IF HasEvent("check_policy_hash", "Ok")
           THEN Unwrap(ret) = Err("NoMatchingRuntimeIsolateHash")
           ELSE FailedAsProbe

C5_Witness ==
    /\ C5_NoMatch /\ Returned
    /\ HasEvent("check_policy_hash", "Ok")
    /\ Unwrap(ret) = Err("NoMatchingRuntimeIsolateHash")

\* C6: a data-plane call on a client whose check_policy_hash or check_runtime_hash
\* failed in an earlier call (the check rejected the enclave's policy hash, status
\* or certificate) refuses to run: it returns an error and does not reach its
\* request.
C6_TaintedRefuses ==
    (DataCall /\ call.tainted) => (Returned /\ ~Unwrap(ret).ok /\ ~PayloadSent)

\* the HTTP round trip of request_shutdown failed after the POST had left
ShutdownTransportError ==
    /\ call.op = "request_shutdown"
    /\ Returned
    /\ trace[1] = Event("request", "RequestShutdown")
    /\ trace[2].ev = "relay"
    /\ trace[2].what \in {"reqwest send", "reqwest bad status", "reqwest text"}

\* C10: request_shutdown returns Ok when the relay reports a transport error
\* (failed POST, non-200 status, failed response read) for the shutdown record.
C10_ShutdownOk == ShutdownTransportError => Unwrap(ret).ok

---------------------------------------------------------------------------
(* Properties of the runtime-hash verifier (SpecHash). *)

\* received equals the decoded hash the policy holds for some platform
MatchesSomePlatform ==
    \E i \in 1..Len(Platforms) :
        /\ IsSome(policy[Platforms[i]])
        /\ hex_decode(Unwrap(policy[Platforms[i]])).ok
        /\ hex_decode(Unwrap(policy[Platforms[i]])).val = recv

\* C4: compare_runtime_hash accepts exactly when the received bytes equal the
\* hash the policy holds for at least one of Linux, Nitro, IceCap, whatever the
\* entries of the policy are.
C4_AcceptsIffMatch ==
    pc = "compared" => (Unwrap(ret).ok <=> MatchesSomePlatform)

---------------------------------------------------------------------------
(* Properties of the relay (SpecRelay). *)

\* C7: once the shared session id is non-zero it never changes.
C7_SessionIdMonotone ==
    [][remote_session_id # Some(0) => remote_session_id' = remote_session_id]_vars

\* C8: a write whose response carries a session id other than the one already
\* assigned returns an error.
C8_MismatchIsError ==
    (/\ IsSome(relay_ret)
     /\ Unwrap(relay_ret).op = "write"
     /\ Unwrap(relay_ret).before_id # Some(0)
     /\ IsSome(Unwrap(relay_ret).resp_id)
     /\ Unwrap(relay_ret).resp_id # Unwrap(relay_ret).before_id)
        => ~Unwrap(relay_ret).ret.ok

\* C9: a POST sent before the first non-empty response carries session id 0, and
\* every POST sent after the first non-empty response, which carried id N,
\* carries N as its first token.
C9_PostsCarryAssignedId ==
    (/\ IsSome(relay_ret)
     /\ Unwrap(relay_ret).op = "write"
     /\ Unwrap(relay_ret).posted)
        => ItemsId(split_whitespace(Unwrap(last_post))) =
              IF IsSome(Unwrap(relay_ret).before_assigned)
              THEN Unwrap(relay_ret).before_assigned
              ELSE Some(0)

---------------------------------------------------------------------------
(* Properties of a write in progress (SpecPost). *)

\* C11: at most one POST of the connection is in flight; while a POST is in
\* flight the write that started it has not returned (so no other read or write
\* of the connection has begun), and no step before the one that processes the
\* completed POST changes the session id or the read buffer or returns.
C11_OnePostInFlight ==
    /\ [](in_flight <= 1 /\ (in_flight = 1 => wpc = "posting"))
    /\ [][wpc' # "idle" =>
            /\ remote_session_id' = remote_session_id
            /\ read_buffer' = read_buffer
            /\ relay_ret' = relay_ret]_vars

\* a POST is in flight and an earlier write of the connection has returned
C11_Witness ==
    /\ in_flight = 1
    /\ nposts >= 1
    /\ IsSome(relay_ret)

---------------------------------------------------------------------------
(* Properties of the read buffer (SpecFifo). *)

\* what the last call of the connection returned
LastRead == IsSome(relay_ret) /\ relay_ret[1].op = "read"
LastWrite == IsSome(relay_ret) /\ relay_ret[1].op = "write"

\* C12: the bytes read calls have returned so far, followed by the bytes still in
\* the read buffer, are the bytes write has decoded from the records of the
\* responses, in the order they arrived; and a read of a destination of n bytes
\* returns min(n, length of the read buffer) and hands over that many bytes from
\* the front of the buffer, keeping the rest.
C12_Fifo ==
    /\ delivered \o read_buffer = arrived
    /\ LastRead =>
         LET r == relay_ret[1]
             k == Min(r.n, Len(r.before_buf))
         IN  /\ r.ret = Ok(k)
             /\ r.out = SubSeq(r.before_buf, 1, k)
             /\ r.out \o read_buffer = r.before_buf

\* a read has returned part of a buffer that two responses filled
C12_Witness ==
    /\ LastRead
    /\ relay_ret[1].out # <<>>
    /\ read_buffer # <<>>
    /\ Len(arrived) >= 3
    /\ Len(delivered) >= 2

---------------------------------------------------------------------------
(* Frame properties of write and read (SpecRelay). *)

\* the body of the response the last write received is empty or only whitespace
BlankBody ==
    /\ LastWrite
    /\ relay_ret[1].kind = "ok"
    /\ \A i \in 1..Len(relay_ret[1].body) : IsWhitespace(relay_ret[1].body[i])

\* C13: a write whose 200 response has an empty or all-whitespace body leaves the
\* session id and the read buffer as they were and returns Ok(length of the data
\* written).
C13_BlankBodyChangesNothing ==
    BlankBody =>
        /\ remote_session_id = relay_ret[1].before_id
        /\ read_buffer = relay_ret[1].before_buf
        /\ relay_ret[1].ret = Ok(relay_ret[1].n)

\* a write of two bytes, on a connection whose id has moved on and whose buffer
\* holds bytes, met an all-whitespace body
C13_Witness ==
    /\ BlankBody
    /\ relay_ret[1].body # <<>>
    /\ relay_ret[1].n = 2
    /\ relay_ret[1].before_id = Some(7)
    /\ relay_ret[1].before_buf # <<>>

\* bodies that hold a session id and nothing else, with the id they hold
IdOnlyBodies ==
    {[body |-> <<"7", "\n">>, id |-> 7], [body |-> <<"7">>, id |-> 7],
     [body |-> <<"0">>, id |-> 0], [body |-> <<"8">>, id |-> 8],
     [body |-> <<"+", "7">>, id |-> 7]}

\* the last write received one of these bodies
IdOnly(c) ==
    /\ LastWrite
    /\ relay_ret[1].kind = "ok"
    /\ relay_ret[1].body = c.body

\* C14: a write whose response holds a session id and no records returns Ok, sets
\* the session id to the id of the response and leaves the read buffer as it was.
C14_IdOnlyAccepted ==
    \A c \in IdOnlyBodies :
        IdOnly(c) =>
            /\ relay_ret[1].ret = Ok(relay_ret[1].n)
            /\ remote_session_id = Some(c.id)
            /\ read_buffer = relay_ret[1].before_buf

\* an id-only response changed the id of a connection whose buffer holds bytes
C14_Witness ==
    /\ IdOnly([body |-> <<"7", "\n">>, id |-> 7])
    /\ relay_ret[1].before_id = Some(8)
    /\ relay_ret[1].before_buf # <<>>

\* C15: a read into a destination of length zero returns 0, hands over nothing
\* and leaves the read buffer and the session id as they were.
C15_ZeroLengthRead ==
    (LastRead /\ relay_ret[1].n = 0) =>
        /\ relay_ret[1].ret = Ok(0)
        /\ relay_ret[1].out = <<>>
        /\ read_buffer = relay_ret[1].before_buf
        /\ remote_session_id = relay_ret[1].before_id

\* a zero-length read of a buffer that holds bytes
C15_Witness ==
    /\ LastRead
    /\ relay_ret[1].n = 0
    /\ Len(read_buffer) >= 2
    /\ remote_session_id = Some(7)

---------------------------------------------------------------------------
(* The paths of data-plane requests (Spec). *)

\* the text begins with one '/' and no second one follows it
OneLeadingSlash(path) ==
    /\ Len(path) >= 1
    /\ path[1] = "/"
    /\ Len(path) >= 2 => path[2] # "/"

---------------------------------------------------------------------------
(* Properties of the proxy attestation server (SpecProxy). *)

\* the platform of a route is enabled in this build
RouteEnabled(route) ==
    IF route = "PSA" THEN features \cap {"linux", "icecap"} # {}
    ELSE "nitro" \in features
RouteHandler(route) ==
    IF route = "PSA" THEN "psa::attestation_token" ELSE "nitro::attestation_token"

\* C17: a router whose platform is disabled answers UnimplementedRequest to every
\* op; a router whose platform is enabled answers UnsupportedRequest to every op
\* other than "AttestationToken"; the attestation-token handler of the route is
\* dispatched to exactly for op = "AttestationToken" on an enabled platform.
C17_RouterErrors ==
    IsSome(proxy_ret) =>
        LET q == proxy_ret[1]
        IN  /\ ~RouteEnabled(q.route) => q.resp = Refused("UnimplementedRequestError")
            /\ (RouteEnabled(q.route) /\ q.op # "AttestationToken") =>
                   q.resp = Refused("UnsupportedRequestError")
            /\ (RouteEnabled(q.route) /\ q.op = "AttestationToken") =>
                   /\ q.resp.err = "none"
                   /\ q.resp.handler = RouteHandler(q.route)
                   /\ q.resp.input = q.input

\* the PSA router of an IceCap build refused an op that only resembles the
\* supported one
C17_Witness ==
    /\ IsSome(proxy_ret)
    /\ features = {"icecap"}
    /\ proxy_ret[1].route = "PSA"
    /\ proxy_ret[1].op = "AttestationTokens"
    /\ proxy_ret[1].resp.err = "UnsupportedRequestError"

\* C18: a call of server in which loading the CA certificate or loading the CA
\* key fails returns Err and binds and starts no listener; a call binds only
\* after it has loaded the certificate and then the key, both with success.
C18_StartupFatal ==
    IsSome(server_ret) =>
        LET r == server_ret[1]
        IN  /\ (~r.cert_ok \/ ~r.key_ok) =>
                   /\ ~r.ret.ok
                   /\ listeners = r.before
                   /\ \A i \in 1..Len(r.steps) : r.steps[i] \notin {"bind", "run"}
            /\ \A i \in 1..Len(r.steps) :
                   r.steps[i] = "bind" =>
                       /\ r.cert_ok /\ r.key_ok
                       /\ i = 3
                       /\ r.steps[1] = "load_ca_certificate"
                       /\ r.steps[2] = "load_ca_key"

\* the certificate loaded and the key did not
C18_Witness ==
    /\ IsSome(server_ret)
    /\ server_ret[1].cert_ok
    /\ ~server_ret[1].key_ok
    /\ ~server_ret[1].ret.ok
    /\ server_ret[1].steps = <<"load_ca_certificate", "load_ca_key">>

---------------------------------------------------------------------------
(* Properties of the framed transport (SpecCodec). *)

\* C20: the i-th call of receive_message on the peer returns the i-th message
\* given to send_message, equal in every field, so messages arrive in the order
\* they were sent; and two messages with the same serialization are equal.
C20_RoundTrip ==
    /\ \A i \in 1..Len(received_msgs) :
           i <= Len(sent_msgs) => received_msgs[i] = RecvOk(sent_msgs[i])
    /\ \A i, j \in 1..Len(sent_msgs) :
           serialize(sent_msgs[i]) = serialize(sent_msgs[j]) =>
               sent_msgs[i] = sent_msgs[j]

\* two different messages were sent before the first was received, and both
\* have been received
C20_Witness ==
    /\ Len(sent_msgs) = 2
    /\ Len(received_msgs) = 2
    /\ sent_msgs[1].tag = "NativeAttestation"
    /\ sent_msgs[1].n = -1
    /\ sent_msgs[2].tag = "CertChain"
    /\ Len(sent_msgs[2].chain) = 2
    /\ received_msgs[2].ok

---------------------------------------------------------------------------
(* C21: decoding rejects trailing bytes.  Whenever the payload of a received *)
(* frame is a valid encoding of a message followed by one or more extra      *)
(* bytes, receive_message returns an error.                                  *)

\* the i-th frame received carried extra bytes after its message
Padded(i) == i <= Len(padding) /\ padding[i] # <<>>

C21_TrailingBytesRejected ==
    \A i \in 1..Len(received_msgs) : Padded(i) => ~received_msgs[i].ok

---------------------------------------------------------------------------
(* C22: the root enclave accepts NativeAttestation, StartProxy,              *)
(* ProxyAttestation and SetCertChain only in that order.  A request that     *)
(* arrives out of order is answered with Status(Fail) and leaves the state   *)
(* of the enclave as it was.                                                 *)

\* the place of a request in the order, and the number of requests of the
\* order an enclave in a state has accepted
Position(tag) ==
    CASE tag = "NativeAttestation" -> 1
      [] tag = "StartProxy" -> 2
      [] tag = "ProxyAttestation" -> 3
      [] tag = "SetCertChain" -> 4
      [] OTHER -> 0

Accepted(state) ==
    CASE state = "UNPROVISIONED" -> 0
      [] state = "PROXY_CHALLENGED" -> 1
      [] state = "CHALLENGE_ISSUED" -> 2
      [] state = "ATTESTED" -> 3
      [] OTHER -> 4

OutOfOrder(entry) ==
    /\ Position(entry.req.tag) > 0
    /\ Position(entry.req.tag) # Accepted(entry.before.state) + 1

\* the enclave as the i-th request left it
After(i) == IF i = Len(root_log) THEN enclave ELSE root_log[i + 1].before

C22_OutOfOrderFails ==
    \A i \in 1..Len(root_log) :
        OutOfOrder(root_log[i]) =>
            /\ root_log[i].reply = Fail
            /\ After(i) = root_log[i].before

\* a request has been refused as out of order after the enclave had advanced,
\* and one that came too early as well
C22_Witness ==
    /\ \E i \in 1..Len(root_log) :
         OutOfOrder(root_log[i]) /\ Accepted(root_log[i].before.state) > Position(root_log[i].req.tag)
    /\ \E i \in 1..Len(root_log) :
         OutOfOrder(root_log[i]) /\ Accepted(root_log[i].before.state) + 1 < Position(root_log[i].req.tag)
    /\ enclave.state = "ATTESTED"

---------------------------------------------------------------------------
(* C23: a challenge id issued in a ChallengeData reply is consumed exactly   *)
(* once.  The first ProxyAttestation that names it may be answered with      *)
(* CertChain; every later ProxyAttestation that names the same id is         *)
(* answered with Status(Fail).                                               *)

\* the i-th request is a ProxyAttestation naming id, issued before it
Names(i, id) ==
    /\ root_log[i].req.tag = "ProxyAttestation"
    /\ root_log[i].req.n = id
    /\ \E k \in 1..(i - 1) :
         root_log[k].reply.tag = "ChallengeData" /\ root_log[k].reply.n = id

C23_ChallengeConsumedOnce ==
    \A i, j \in 1..Len(root_log) :
        \A id \in {1, 2} :
            (i < j /\ Names(i, id) /\ Names(j, id)) => root_log[j].reply = Fail

\* an issued id was named by a ProxyAttestation whose evidence was refused, and
\* named again with good evidence
C23_Witness ==
    \E i, j \in 1..Len(root_log) :
        /\ i < j
        /\ Names(i, 1) /\ Names(j, 1)
        /\ ~verify_token(root_log[i].req.a)
        /\ verify_token(root_log[j].req.a)
        /\ root_log[j].before.state = "CHALLENGE_ISSUED"

---------------------------------------------------------------------------
(* C24: every SendProgram, SendData, RequestCompute or ReadFile request is   *)
(* immediately preceded by a RequestPolicyHash request of the same client    *)
(* whose response had status SUCCESS and carried the local policy hash;      *)
(* within the call the probe comes first, then the runtime-hash check, then  *)
(* the payload request.                                                      *)

IsRequest(i) == trace[i].ev = "request"

\* the last request before the i-th event of the trace, 0 when there is none
RECURSIVE PreviousRequest(_)
PreviousRequest(i) ==
    IF i <= 1 THEN 0
    ELSE IF IsRequest(i - 1) THEN i - 1
    ELSE PreviousRequest(i - 1)

\* between the probe at j and the request at i: the reply to the probe with
\* status SUCCESS and the local hash, and after it the runtime-hash check
ProbeThenRuntimeCheck(j, i) ==
    \E k, m \in (j + 1)..(i - 1) :
        /\ k < m
        /\ trace[k].ev = "reply"
        /\ trace[k].what = "SUCCESS"
        /\ trace[k].hash = policy_hash
        /\ trace[m].ev = "check_runtime_hash"
        /\ trace[m].what = "Ok"

C24_ProbeImmediatelyBeforePayload ==
    \A i \in 1..Len(trace) :
        (IsRequest(i) /\ trace[i].what \in PayloadRequests) =>
            /\ PreviousRequest(i) > 0
            /\ trace[PreviousRequest(i)].what = "RequestPolicyHash"
            /\ ProbeThenRuntimeCheck(PreviousRequest(i), i)

\* the second call of a client has put its payload request on the wire
C24_Witness ==
    /\ ncalls = 2
    /\ DataCall
    /\ PayloadSent
    /\ trace[Len(trace)].ev = "reply"

---------------------------------------------------------------------------
(* C26: request_compute and get_results return Ok(bytes) only when the       *)
(* response has status SUCCESS and holds a result, and the bytes are the     *)
(* result's data as received; a status other than SUCCESS gives a            *)
(* ResponseError carrying that status, SUCCESS without a result gives        *)
(* VeracruzServerResponseNoResultError.  send_program and send_data return   *)
(* Ok exactly when the status is SUCCESS.                                    *)

\* a data-plane call has returned after its request went to send
PayloadReturned == DataCall /\ Returned /\ PayloadSent

\* the response to the request of the call, when one was parsed
PayloadReplied == PayloadReturned /\ trace[Len(trace)].ev = "reply"
PayloadReply == trace[Len(trace)]

ResultCall == call.op \in {"request_compute", "get_results"}

CarriesStatus(err, status) ==
    \E name \in {"request_compute", "get_result"} :
        err = "ResponseError " \o name \o " " \o status

C26_ResultHandling ==
    /\ (PayloadReturned /\ ~PayloadReplied) => ~Unwrap(ret).ok
    /\ (PayloadReplied /\ ResultCall) =>
          /\ Unwrap(ret).ok <=>
                (PayloadReply.what = "SUCCESS" /\ PayloadReply.has_result)
          /\ Unwrap(ret).ok => Unwrap(ret).val = PayloadReply.result
          /\ PayloadReply.what # "SUCCESS" =>
                CarriesStatus(Unwrap(ret).err, PayloadReply.what)
          /\ (PayloadReply.what = "SUCCESS" /\ ~PayloadReply.has_result) =>
                Unwrap(ret).err = "VeracruzServerResponseNoResultError"
    /\ (PayloadReplied /\ ~ResultCall) =>
          (Unwrap(ret).ok <=> PayloadReply.what = "SUCCESS")

\* get_results has been answered SUCCESS without a result
C26_Witness ==
    /\ PayloadReplied
    /\ call.op = "get_results"
    /\ PayloadReply.what = "SUCCESS"
    /\ ~PayloadReply.has_result
    /\ ~Unwrap(ret).ok

---------------------------------------------------------------------------
(* C25: request_shutdown sends RequestShutdown as its first and only         *)
(* request: it probes no policy hash and checks no runtime hash, also on a   *)
(* client whose hash checks failed in an earlier call.                       *)

ShutdownCall == call.op = "request_shutdown"

C25_ShutdownSendsOnlyShutdown ==
    ShutdownCall =>
        /\ Len(trace) >= 1
        /\ trace[1] = Event("request", "RequestShutdown")
        /\ \A i \in 2..Len(trace) :
             trace[i].ev \notin {"request", "check_policy_hash", "check_runtime_hash"}

\* request_shutdown has returned on a client one of whose checks had failed
C25_Witness ==
    /\ ShutdownCall
    /\ call.tainted
    /\ Returned
    /\ Unwrap(ret).ok

---------------------------------------------------------------------------
(* C27: configuration errors are fatal at construction, before any network   *)
(* traffic.  When the certificate file does not hold exactly one             *)
(* certificate, the key does not match the certificate, the certificate has  *)
(* expired, the proxy service certificate of the policy does not parse or    *)
(* the ciphersuite has no mapping, with_policy_and_hash returns an error, no *)
(* client exists and no POST has been issued; when the key does not match    *)
(* and the certificate has expired the error is the MismatchError of the     *)
(* key.                                                                      *)

ConfigError(cfg) ==
    \/ cfg.cert_count # 1
    \/ ~cfg.key_matches
    \/ cfg.expired
    \/ ~cfg.proxy_cert_parses
    \/ ~cfg.ciphersuite_known

\* the certificate file and the key file were read
FilesRead(cfg) ==
    cfg.cert_readable /\ cfg.cert_pem_ok /\ cfg.cert_count = 1 /\ cfg.key_parses

C27_ConfigErrorsFatal ==
    IsSome(built) =>
        /\ ConfigError(Unwrap(built).cfg) =>
              /\ ~Unwrap(built).out.ret.ok
              /\ ~Unwrap(built).out.client
              /\ Unwrap(built).out.posts = 0
        /\ (FilesRead(Unwrap(built).cfg) /\ ~Unwrap(built).cfg.key_matches
                /\ Unwrap(built).cfg.expired) =>
              Unwrap(built).out.ret.err = "MismatchError public_key"

\* an expired certificate that does not match the key, everything else in order
C27_Witness ==
    /\ IsSome(built)
    /\ FilesRead(Unwrap(built).cfg)
    /\ ~Unwrap(built).cfg.key_matches
    /\ Unwrap(built).cfg.expired
    /\ Unwrap(built).cfg.proxy_cert_parses
    /\ Unwrap(built).cfg.ciphersuite_known
    /\ ~Unwrap(built).out.ret.ok

---------------------------------------------------------------------------
(* C28: the shared session id is never None.  It is created as Some(0) and   *)
(* every assignment stores Some(id), so the unwrap_or(0) of write never      *)
(* falls back and the id handed to the response parser is always present.    *)

C28_SessionIdPresent ==
    /\ IsSome(remote_session_id)
    /\ IsSome(relay_ret) => IsSome(Unwrap(relay_ret).before_id)

\* a write has stored the id 0 of a response over a non-zero id
C28_Witness ==
    /\ LastWrite
    /\ Unwrap(relay_ret).resp_id = Some(0)
    /\ Unwrap(relay_ret).before_id = Some(7)
    /\ remote_session_id = Some(0)

---------------------------------------------------------------------------
(* C29: a write that fails leaves the connection as it was only when it      *)
(* fails before the records are processed (the POST fails, the status is not *)
(* 200, the body cannot be read, the first token is no u32).  When the id    *)
(* parses and a later record is not valid base64, the write returns an error *)
(* although the session id has been replaced by the received one and the     *)
(* records before the bad one have been appended to the read buffer.         *)

FailedWrite == LastWrite /\ ~Unwrap(relay_ret).ret.ok

C29_PartialStateOnError ==
    FailedWrite =>
        IF IsSome(Unwrap(relay_ret).resp_id)
        THEN /\ Unwrap(relay_ret).ret.err = "base64::decode"
             /\ remote_session_id = Unwrap(relay_ret).resp_id
             /\ read_buffer =
                    Unwrap(relay_ret).before_buf
                        \o decoded_from(split_whitespace(Unwrap(relay_ret).body), 2)
        ELSE /\ remote_session_id = Unwrap(relay_ret).before_id
             /\ read_buffer = Unwrap(relay_ret).before_buf

\* a failed write has replaced the id and appended the record before the bad one
C29_Witness ==
    /\ FailedWrite
    /\ Unwrap(relay_ret).body = Join(<<<<"7">>, GoodRecord, BadRecord, GoodRecord>>)
    /\ Unwrap(relay_ret).before_id = Some(0)
    /\ remote_session_id = Some(7)
    /\ read_buffer = Unwrap(relay_ret).before_buf \o <<1>>

=============================================================================
